---- MODULE Spec2Model ----
(***************************************************************************)
(* A model of the ZHTP core: the ledger (src/src/blockchain.rs), the       *)
(* consensus/metrics engine (src/src/consensus.rs), the content registry   *)
(* (src/src/storage/content.rs, src/src/discovery/mod.rs), the keypair     *)
(* (src/src/zhtp/crypto.rs), the overlay network (src/src/network.rs), the *)
(* ZHTP node and its background tasks (src/src/zhtp/mod.rs, as started by  *)
(* src/tests/integration_test.rs), the unified proof                       *)
(* (src/src/zhtp/zk_proofs.rs) and the cross-chain bridge                  *)
(* (src/src/zhtp/bridge/mod.rs).                                           *)
(*                                                                         *)
(* Numbers.  The program computes with f64.  The model represents a real   *)
(* x by the integer x * FP (three decimals) and rounds every product and   *)
(* quotient to the nearest representable value, as IEEE arithmetic rounds  *)
(* to the nearest double.  Inputs are chosen so that no intermediate       *)
(* product leaves the range of TLC's integers.                             *)
(*                                                                         *)
(* Hashes.  SHA-256 is modelled as a collision-free function: the digest   *)
(* of a value is the tagged value itself, <<"sha256", ...>>.               *)
(*                                                                         *)
(* Strings that are compared with digests (Block.previous_hash, the        *)
(* transaction signature) are sequences; Option<T> is a sequence of        *)
(* length 0 (None) or 1 (Some).                                            *)
(***************************************************************************)
EXTENDS Integers, Sequences, FiniteSets, TLC

VARIABLES
    \* ---- ledger: ChainState (blockchain.rs:121-126) and the last call's result
    chain, pending_transactions, balances, transaction_nonces, ledger_ret,
    \* ---- a NetworkMetrics value owned by a caller (consensus.rs:10-17) and
    \*      the number of updates applied to it
    nm, nm_updates,
    \* ---- ConsensusManager.validators (consensus.rs:118), the update_metrics
    \*      calls made for each validator since it was registered, and the
    \*      last call's result
    validators, metric_calls, consensus_ret,
    \* ---- the arguments of the two create_block calls of a reward comparison
    reward_in,
    \* ---- ContentAddressing (content.rs:85-93), the wall clock, the
    \*      find_content call in flight, the last call's result and the
    \*      (bytes, node) pairs registered so far, and whether the
    \*      find_content call in flight advanced an access count
    content_map, type_index, size_index, tag_index, access_counts,
    content_now, find_pc, content_ret, registered, find_counted,
    \* ---- a node's Keypair (zhtp/crypto.rs:18-30), the system clock in
    \*      seconds, the number of clock readings that differed from the one
    \*      before, and the last call's result
    keypair, key_now, key_ticks, key_ret,
    \* ---- the overlay Network (network.rs:85-90), the clock read by
    \*      send_packet, the process_messages calls since the last
    \*      send_packet and the configuration calls made
    network, net_now, net_calls, net_setup,
    \* ---- a ZhtpNode (zhtp/mod.rs:111-119), what the receiving end of its
    \*      inbound channel holds, the datagrams it sent and the last call
    znode, znode_inbox, znode_sent, znode_ret,
    \* ---- a UnifiedCircuit (zhtp/zk_proofs.rs:182-208), the proof it
    \*      generated and the last call
    zk_circuit, zk_proof, zk_ret,
    \* ---- the RwLocks of a ContentAddressing (storage/content.rs:85-92),
    \*      the tasks inside its operations and the content ids in its map
    reg_locks, reg_tasks, reg_known,
    \* ---- a ChainAdapter (zhtp/bridge/mod.rs:77-89) and the last call
    bridge, bridge_ret,
    \* ---- two shared ZhtpNodes (tests/integration_test.rs:20-21), their
    \*      sockets' receive buffers, the channels of their listen loops, the
    \*      connect call of the first, the clock, the calls made and the last
    \*      value returned
    task_nodes, task_sockets, task_channels, task_connect, task_now,
    task_calls, task_ret

ledger_vars == <<chain, pending_transactions, balances, transaction_nonces, ledger_ret>>
metrics_vars == <<nm, nm_updates>>
consensus_vars == <<validators, metric_calls, consensus_ret>>
reward_vars == <<reward_in>>
content_vars == <<content_map, type_index, size_index, tag_index, access_counts,
                  content_now, find_pc, content_ret, registered, find_counted>>
key_vars == <<keypair, key_now, key_ticks, key_ret>>
network_vars == <<network, net_now, net_calls, net_setup>>
znode_vars == <<znode, znode_inbox, znode_sent, znode_ret>>
zk_vars == <<zk_circuit, zk_proof, zk_ret>>
lock_vars == <<reg_locks, reg_tasks, reg_known>>
bridge_vars == <<bridge, bridge_ret>>
task_vars == <<task_nodes, task_sockets, task_channels, task_connect, task_now,
               task_calls, task_ret>>
vars == <<ledger_vars, metrics_vars, consensus_vars, reward_vars, content_vars,
          key_vars, network_vars,
          znode_vars,
          zk_vars,
          lock_vars,
          bridge_vars,
          task_vars>>

except_ledger ==
    <<metrics_vars, consensus_vars, reward_vars, content_vars, key_vars, network_vars,
      znode_vars,
      zk_vars,
      lock_vars,
      bridge_vars,
      task_vars>>
except_metrics ==
    <<ledger_vars, consensus_vars, reward_vars, content_vars, key_vars, network_vars,
      znode_vars,
      zk_vars,
      lock_vars,
      bridge_vars,
      task_vars>>
except_consensus ==
    <<ledger_vars, metrics_vars, reward_vars, content_vars, key_vars, network_vars,
      znode_vars,
      zk_vars,
      lock_vars,
      bridge_vars,
      task_vars>>
except_content ==
    <<ledger_vars, metrics_vars, consensus_vars, reward_vars, key_vars, network_vars,
      znode_vars,
      zk_vars,
      lock_vars,
      bridge_vars,
      task_vars>>
except_key ==
    <<ledger_vars, metrics_vars, consensus_vars, reward_vars, content_vars,
      network_vars,
      znode_vars,
      zk_vars,
      lock_vars,
      bridge_vars,
      task_vars>>
except_network ==
    <<ledger_vars, metrics_vars, consensus_vars, reward_vars, content_vars,
      key_vars,
      znode_vars,
      zk_vars,
      lock_vars,
      bridge_vars,
      task_vars>>
except_znode ==
    <<ledger_vars, metrics_vars, consensus_vars, reward_vars, content_vars, key_vars,
      network_vars,
      zk_vars,
      lock_vars,
      bridge_vars,
      task_vars>>
except_zk ==
    <<ledger_vars, metrics_vars, consensus_vars, reward_vars, content_vars, key_vars,
      network_vars, znode_vars,
      lock_vars,
      bridge_vars,
      task_vars>>
except_locks ==
    <<ledger_vars, metrics_vars, consensus_vars, reward_vars, content_vars, key_vars,
      network_vars, znode_vars, zk_vars,
      bridge_vars,
      task_vars>>
except_bridge ==
    <<ledger_vars, metrics_vars, consensus_vars, reward_vars, content_vars, key_vars,
      network_vars, znode_vars, zk_vars, lock_vars,
      task_vars>>
except_tasks ==
    <<ledger_vars, metrics_vars, consensus_vars, reward_vars, content_vars, key_vars,
      network_vars, znode_vars, zk_vars, lock_vars, bridge_vars>>

-----------------------------------------------------------------------------
(* Bounds of the model *)

\* Calls of add_transaction that reach the nonce counter.
MaxTx == 3
\* Blocks created after genesis.
MaxBlocks == 2
\* Successful find_content calls per content.
MaxAccess == 2
\* Readings of the wall clock after the first.
MaxTime == 1
\* Updates applied to one NetworkMetrics value.
MaxUpdates == 4
\* update_metrics calls made on the validator registry.
MaxMetricCalls == 2
\* Keypairs generated after the first.
MaxKeys == 1
\* Advances of the system clock seen by the key operations.
MaxKeyTicks == 2
\* send_packet calls.
MaxPackets == 1
\* add_node, set_node_condition, connect_nodes and disconnect_node calls made
\* on a network after it was built.
MaxSetup == 1
\* Nodes on the route path of a circuit.
MaxPath == 3
\* Tasks calling the content registry at the same time.
MaxTasks == 2
\* Messages in the queue of a chain adapter.
MaxQueue == 2
\* send_packet calls of the sending loop of test_degraded_network.
MaxTracked == 2
\* connect calls of a node.
MaxConnects == 2
\* force_immediate_rotation calls of a node.
MaxForced == 1
\* Advances of the clock seen by the tasks of a node.
MaxClock == 2

-----------------------------------------------------------------------------
(* Fixed-point arithmetic standing for f64 *)

\* 1.0
FP == 10 ^ 3

\* n / d rounded to the nearest integer (d > 0).
RoundDiv(n, d) == (2 * n + d) \div (2 * d)

\* a * b on fixed-point values.  A quotient a / b is RoundDiv(a, k) when
\* b is the whole number k, and RoundDiv(i * FP, j) for counters i and j.
Mul(a, b) == RoundDiv(a * b, FP)

\* f64::min, f64::max, f64::clamp
Min(a, b) == IF a < b THEN a ELSE b
Max(a, b) == IF a > b THEN a ELSE b
clamp(x, lo, hi) == Max(lo, Min(x, hi))

\* Option<T>
None == <<>>
Some(x) == <<x>>

-----------------------------------------------------------------------------
(* NetworkMetrics (consensus.rs:10-69) *)

\* const ALPHA: f64 = 0.1
ALPHA == FP \div 10
\* const REPUTATION_SCALE: f64 = 0.1
REPUTATION_SCALE == FP \div 10

NetworkMetrics_new(uptime_threshold) ==
    [packets_routed |-> 0, delivery_success |-> 0, delivery_failures |-> 0,
     average_latency |-> 0, reputation_score |-> FP,
     uptime_threshold |-> uptime_threshold]

\* A plausible slip: a flat step in place of the scaled one, and no clamp.
update_reputation_flat(m, success) ==
    [m EXCEPT !.reputation_score =
        IF success THEN @ + REPUTATION_SCALE ELSE @ - REPUTATION_SCALE]

update_reputation(m, success) ==
    LET r  == m.reputation_score
        r1 == IF success THEN r + Mul(REPUTATION_SCALE, FP - r)
                         ELSE r - Mul(REPUTATION_SCALE, r)
    IN  [m EXCEPT !.reputation_score = clamp(r1, 0, FP)]

update_routing_metrics(m, latency) ==
    LET m1 == [m EXCEPT !.packets_routed = @ + 1,
                        !.delivery_success = @ + 1,
                        !.average_latency =
                            Mul(ALPHA, latency) + Mul(FP - ALPHA, @)]
    IN  update_reputation(m1, TRUE)

update_failed_routing(m) ==
    update_reputation([m EXCEPT !.delivery_failures = @ + 1], FALSE)

get_delivery_success_rate(m) ==
    IF m.delivery_success + m.delivery_failures = 0
    THEN FP
    ELSE RoundDiv(m.delivery_success * FP,
                  m.delivery_success + m.delivery_failures)

-----------------------------------------------------------------------------
(* Ledger: Transaction, Block, ChainState, Blockchain (blockchain.rs) *)

\* Blockchain::new(100.0) (main.rs:95, the tests)
base_reward == 100 * FP

\* Transaction::new / Transaction::with_data: the nonce starts at 0 and the
\* signature empty; the timestamp is the wall clock's reading.
Transaction_new(from, to, amount, ts) ==
    [from |-> from, to |-> to, amount |-> amount, timestamp |-> ts,
     signature |-> <<>>, nonce |-> 0, data |-> <<>>]

Transaction_calculate_hash(tx) ==
    <<"sha256", tx.from, tx.to, tx.amount, tx.timestamp, tx.nonce>>

\* signature = "<private_key>:<hash>"
sign(tx, private_key) ==
    [tx EXCEPT !.signature = <<private_key, Transaction_calculate_hash(tx)>>]

\* The text before the first ':' of the signature (the whole, empty, string
\* of an unsigned transaction) is compared with the key.
verify_signature(tx, public_key) ==
    (IF tx.signature = <<>> THEN "" ELSE tx.signature[1]) = public_key

Block_calculate_hash(b) ==
    <<"sha256", b.index, b.timestamp, b.transactions, b.previous_hash,
      b.validator, b.validator_score>>

Block_new(index, transactions, previous_hash, validator, validator_score, network_metrics, ts) ==
    LET block == [index |-> index, timestamp |-> ts,
                  transactions |-> transactions,
                  previous_hash |-> previous_hash, hash |-> <<>>,
                  validator |-> validator,
                  validator_score |-> validator_score,
                  network_metrics |-> network_metrics]
    IN  [block EXCEPT !.hash = Block_calculate_hash(block)]

\* HashMap<String, _>::new()
EmptyMap == [k \in {} |-> 0]

\* *map.entry(k).or_insert(0) += d
entry_add(map, k, d) ==
    IF k \in DOMAIN map THEN [map EXCEPT ![k] = @ + d] ELSE map @@ (k :> d)

\* *map.get(k).unwrap_or(&0)
get_or_zero(map, k) == IF k \in DOMAIN map THEN map[k] ELSE 0

get_balance(address) == get_or_zero(balances, address)

\* A plausible slip: first() in place of last().
first_block(c) == c[1]

\* state.chain.last().unwrap()
last_block(c) == c[Len(c)]

get_latest_block == last_block(chain)

\* A plausible slip: the latency multiplier grows with the latency.
calculate_reward_inverted(validator_score, network_metrics) ==
    LET base == Mul(base_reward, validator_score)
        delivery_multiplier == get_delivery_success_rate(network_metrics)
        latency_multiplier ==
            RoundDiv(Min(network_metrics.average_latency, 1000 * FP), 1000)
        routing_multiplier ==
            FP + Min(RoundDiv(network_metrics.packets_routed * FP, 100),
                     FP \div 5)
    IN  Mul(Mul(Mul(base, delivery_multiplier), latency_multiplier),
            routing_multiplier)

calculate_reward(validator_score, network_metrics) ==
    LET base == Mul(base_reward, validator_score)
        delivery_multiplier == get_delivery_success_rate(network_metrics)
        latency_multiplier ==
            RoundDiv(1000 * FP
                       - Min(network_metrics.average_latency, 1000 * FP), 1000)
        routing_multiplier ==
            FP + Min(RoundDiv(network_metrics.packets_routed * FP, 100),
                     FP \div 5)
    IN  Mul(Mul(Mul(base, delivery_multiplier), latency_multiplier),
            routing_multiplier)

\* The inner loop of create_block's balance recomputation (lines 268-273).
RECURSIVE apply_transactions(_, _)
apply_transactions(bal, txs) ==
    IF txs = <<>> THEN bal
    ELSE LET tx == Head(txs)
             b1 == IF tx.from # "network"
                   THEN entry_add(bal, tx.from, 0 - tx.amount) ELSE bal
         IN  apply_transactions(entry_add(b1, tx.to, tx.amount), Tail(txs))

\* A plausible slip: the recomputation also walks the pending pool.
new_balances_with_pending(blocks) ==
    LET RECURSIVE walk(_, _)
        walk(bal, bs) ==
            IF bs = <<>> THEN bal
            ELSE walk(apply_transactions(bal, Head(bs).transactions), Tail(bs))
    IN  apply_transactions(walk(EmptyMap, blocks), pending_transactions)

\* The outer loop (lines 266-275): balances are rebuilt from every block.
new_balances(blocks) ==
    LET RECURSIVE walk(_, _)
        walk(bal, bs) ==
            IF bs = <<>> THEN bal
            ELSE walk(apply_transactions(bal, Head(bs).transactions), Tail(bs))
    IN  walk(EmptyMap, blocks)

\* ChainState::new
ChainState_new(ts) ==
    [chain |-> <<Block_new(0, <<>>, <<"0">>, "genesis", 0, None, ts)>>,
     pending_transactions |-> <<>>,
     balances |-> EmptyMap,
     transaction_nonces |-> EmptyMap]

-----------------------------------------------------------------------------
(* Ledger operations *)

\* lines 172-177: the counter of `from` after its nonce was taken.
next_nonces(nonces, from) == entry_add(nonces, from, 1)

\* A plausible slip: the funds check compares with <= .
insufficient_funds_strict(tx) ==
    tx.from # "network" /\ get_balance(tx.from) <= tx.amount

\* lines 180-185: the sender cannot pay.
insufficient_funds(tx) ==
    tx.from # "network" /\ get_balance(tx.from) < tx.amount

\* The number of nonces handed out so far, over all senders.
nonces_taken(nonces) ==
    LET RECURSIVE total(_)
        total(ks) == IF ks = {} THEN 0
                     ELSE LET k == CHOOSE x \in ks : TRUE
                          IN  nonces[k] + total(ks \ {k})
    IN  total(DOMAIN nonces)

\* Blockchain::add_transaction(transaction)
add_transaction(transaction) ==
    IF transaction.from = "" \/ transaction.to = ""
    THEN /\ ledger_ret' = [op |-> "add_transaction", tx |-> transaction,
                           value |-> FALSE]
         /\ UNCHANGED <<chain, pending_transactions, balances,
                        transaction_nonces>>
    ELSE LET tx == [transaction EXCEPT
                       !.nonce = get_or_zero(transaction_nonces, transaction.from)]
         IN  /\ nonces_taken(transaction_nonces) < MaxTx
             /\ transaction_nonces' =
                    next_nonces(transaction_nonces, transaction.from)
             /\ IF insufficient_funds(tx)
                THEN /\ ledger_ret' = [op |-> "add_transaction", tx |-> tx,
                                       value |-> FALSE]
                     /\ UNCHANGED pending_transactions
                ELSE /\ pending_transactions' =
                            Append(pending_transactions, tx)
                     /\ ledger_ret' = [op |-> "add_transaction", tx |-> tx,
                                       value |-> TRUE]
             /\ UNCHANGED <<chain, balances>>

\* A plausible slip: the pending pool is copied into the block, not moved.
create_block_keep_pending(validator_id, validator_score, network_metrics, ts) ==
    LET reward == IF network_metrics # None
                  THEN calculate_reward(validator_score, network_metrics[1])
                  ELSE Mul(base_reward, validator_score)
        reward_tx == sign(Transaction_new("network", validator_id, reward, ts),
                          "network")
        transactions == <<reward_tx>> \o pending_transactions
        new_block == Block_new(Len(chain), transactions,
                               last_block(chain).hash, validator_id,
                               validator_score, network_metrics, ts)
    IN  /\ Len(chain) <= MaxBlocks
        /\ pending_transactions' = pending_transactions
        /\ chain' = Append(chain, new_block)
        /\ balances' = new_balances(chain')
        /\ ledger_ret' = [op |-> "create_block", validator |-> validator_id,
                          reward |-> reward]
        /\ UNCHANGED transaction_nonces

\* Blockchain::create_block(validator_id, validator_score, network_metrics)
create_block(validator_id, validator_score, network_metrics, ts) ==
    LET reward == IF network_metrics # None
                  THEN calculate_reward(validator_score, network_metrics[1])
                  ELSE Mul(base_reward, validator_score)
        reward_tx == sign(Transaction_new("network", validator_id, reward, ts),
                          "network")
        transactions == <<reward_tx>> \o pending_transactions
        new_block == Block_new(Len(chain), transactions,
                               last_block(chain).hash, validator_id,
                               validator_score, network_metrics, ts)
    IN  /\ Len(chain) <= MaxBlocks
        /\ pending_transactions' = <<>>
        /\ chain' = Append(chain, new_block)
        /\ balances' = new_balances(chain')
        /\ ledger_ret' = [op |-> "create_block", validator |-> validator_id,
                          reward |-> reward]
        /\ UNCHANGED transaction_nonces

(* Inputs of the ledger operations *)
Timestamps == {0}

\* The two metrics values of test_dynamic_rewards (lines 287-297).
good_metrics ==
    update_reputation(update_reputation(
        [NetworkMetrics_new(1000 * FP) EXCEPT !.packets_routed = 50,
                                              !.average_latency = 50 * FP],
        TRUE), TRUE)
poor_metrics ==
    update_reputation(update_reputation(
        [NetworkMetrics_new(1000 * FP) EXCEPT !.packets_routed = 10,
                                              !.average_latency = 500 * FP],
        FALSE), FALSE)
\* (validator_id, validator_score, network_metrics) of the create_block calls:
\* main.rs:162 and blockchain.rs:299.
BlockInputs ==
    {<<"a", FP, None>>,
     <<"b", 9 * (FP \div 10), Some(good_metrics)>>}

\* The transactions handed to add_transaction: a mint and transfers signed
\* by the sender (main.rs:148-157), a mint that was never signed, and two
\* transactions with an empty endpoint.
TxInputs ==
    UNION {
        {sign(Transaction_new("network", "a", FP, ts), "network"),
         Transaction_new("network", "a", FP, ts),
         sign(Transaction_new("a", "b", FP, ts), "a"),
         sign(Transaction_new("a", "b", 0, ts), "a"),
         sign(Transaction_new("", "b", 0, ts), ""),
         sign(Transaction_new("network", "", 0, ts), "network")} :
        ts \in Timestamps}

AddTransaction ==
    /\ \E tx \in TxInputs : add_transaction(tx)
    /\ UNCHANGED except_ledger

CreateBlock ==
    /\ \E b \in BlockInputs, ts \in Timestamps :
            create_block(b[1], b[2], b[3], ts)
    /\ UNCHANGED except_ledger

LedgerInit ==
    \E ts \in Timestamps :
        /\ chain = ChainState_new(ts).chain
        /\ pending_transactions = ChainState_new(ts).pending_transactions
        /\ balances = ChainState_new(ts).balances
        /\ transaction_nonces = ChainState_new(ts).transaction_nonces
        /\ ledger_ret = [op |-> "new"]

-----------------------------------------------------------------------------
(* A NetworkMetrics value and its three update methods *)

\* The latency arguments: whisper.rs:305, consensus.rs:251-252.
Latencies == {0, 100 * FP, 500 * FP}

MetricsInit ==
    /\ nm = NetworkMetrics_new(9 * (FP \div 10))
    /\ nm_updates = 0

UpdateRoutingMetrics ==
    /\ nm_updates < MaxUpdates
    /\ \E latency \in Latencies : nm' = update_routing_metrics(nm, latency)
    /\ nm_updates' = nm_updates + 1
    /\ UNCHANGED except_metrics

UpdateFailedRouting ==
    /\ nm_updates < MaxUpdates
    /\ nm' = update_failed_routing(nm)
    /\ nm_updates' = nm_updates + 1
    /\ UNCHANGED except_metrics

UpdateReputation ==
    /\ nm_updates < MaxUpdates
    /\ \E success \in BOOLEAN : nm' = update_reputation(nm, success)
    /\ nm_updates' = nm_updates + 1
    /\ UNCHANGED except_metrics

-----------------------------------------------------------------------------
(* ConsensusManager (consensus.rs:116-224) *)

\* ConsensusManager::new(100.0, 3600) (consensus.rs:233)
consensus_base_reward == 100 * FP

ValidatorInfo_new(id, stake, uptime_threshold) ==
    [id |-> id, stake |-> stake, metrics |-> NetworkMetrics_new(uptime_threshold)]

\* HashMap::insert
map_insert(map, k, v) ==
    [x \in DOMAIN map \cup {k} |-> IF x = k THEN v ELSE map[x]]

\* The orders in which a HashMap may hand out its keys.
iteration_orders(keys) ==
    {order \in [1..Cardinality(keys) -> keys] :
        \A i, j \in 1..Cardinality(keys) : order[i] = order[j] => i = j}

score_of(info) == Mul(info.stake, info.metrics.reputation_score)

\* lines 157-168: the scan of select_leader over the registry in `order`.
leader_scan(order, registry) ==
    LET RECURSIVE scan(_, _, _)
        scan(i, max_score, leader) ==
            IF i > Len(order) THEN leader
            ELSE LET score == score_of(registry[order[i]])
                 IN  IF score > max_score
                     THEN scan(i + 1, score, Some(order[i]))
                     ELSE scan(i + 1, max_score, leader)
    IN  scan(1, 0, None)

register_node(node_id, stake) ==
    /\ validators' = map_insert(validators, node_id,
                                ValidatorInfo_new(node_id, stake, 9 * (FP \div 10)))
    /\ metric_calls' = map_insert(metric_calls, node_id,
                                  [success |-> 0, failure |-> 0])
    /\ consensus_ret' = [op |-> "register_node", node |-> node_id]

select_leader ==
    /\ IF DOMAIN validators = {}
       THEN consensus_ret' = [op |-> "select_leader", value |-> None]
       ELSE \E order \in iteration_orders(DOMAIN validators) :
               consensus_ret' = [op |-> "select_leader",
                                 value |-> leader_scan(order, validators)]
    /\ UNCHANGED <<validators, metric_calls>>

\* lines 174-182: the metrics of a registered validator after the call.
updated_metrics(metrics, success, latency) ==
    IF success
    THEN IF latency # None
         THEN update_routing_metrics(metrics, latency[1])
         ELSE metrics
    ELSE update_failed_routing(metrics)

update_metrics(node, success, latency) ==
    /\ validators' =
        IF node \in DOMAIN validators
        THEN [validators EXCEPT ![node].metrics =
                 updated_metrics(@, success, latency)]
        ELSE validators
    /\ metric_calls' =
        IF node \in DOMAIN metric_calls
        THEN [metric_calls EXCEPT
                 ![node].success = IF success THEN @ + 1 ELSE @,
                 ![node].failure = IF success THEN @ ELSE @ + 1]
        ELSE metric_calls
    /\ consensus_ret' = [op |-> "update_metrics", node |-> node]

get_metrics(node) ==
    IF node \in DOMAIN validators THEN Some(validators[node].metrics) ELSE None

\* A plausible slip: the bonus goes to everyone but the leader.
reward_of_swapped(id, info, round) ==
    LET reward == Mul(Mul(consensus_base_reward, info.stake),
                      info.metrics.reputation_score)
    IN  IF id # round.leader THEN Mul(reward, 3 * (FP \div 2)) ELSE reward

\* lines 214-219: the entry calculate_rewards inserts for one validator.
reward_of(id, info, round) ==
    LET reward == Mul(Mul(consensus_base_reward, info.stake),
                      info.metrics.reputation_score)
    IN  IF id = round.leader THEN Mul(reward, 3 * (FP \div 2)) ELSE reward

calculate_rewards(round) ==
    /\ consensus_ret' =
        [op |-> "calculate_rewards", round |-> round,
         value |-> [id \in DOMAIN validators |->
                       reward_of(id, validators[id], round)]]
    /\ UNCHANGED <<validators, metric_calls>>

(* Inputs of the consensus operations *)
NodeIds == {"node1", "node2", "node3"}
Stakes == {0, FP, 2 * FP}
OptLatencies == {None, Some(100 * FP)}

\* ConsensusRound::new(round, leader, validators)
ConsensusRound_new(round, leader, members) ==
    [round |-> round, leader |-> leader, validators |-> members,
     votes |-> EmptyMap]

calls_made ==
    LET RECURSIVE total(_)
        total(ks) == IF ks = {} THEN 0
                     ELSE LET k == CHOOSE x \in ks : TRUE
                          IN  metric_calls[k].success + metric_calls[k].failure
                              + total(ks \ {k})
    IN  total(DOMAIN metric_calls)

ConsensusInit ==
    /\ validators = EmptyMap
    /\ metric_calls = EmptyMap
    /\ consensus_ret = [op |-> "new"]

RegisterNode ==
    /\ \E node_id \in NodeIds, stake \in Stakes : register_node(node_id, stake)
    /\ UNCHANGED except_consensus

SelectLeader ==
    /\ select_leader
    /\ UNCHANGED except_consensus

UpdateMetrics ==
    /\ calls_made < MaxMetricCalls
    /\ \E node \in NodeIds, success \in BOOLEAN, latency \in OptLatencies :
            update_metrics(node, success, latency)
    /\ UNCHANGED except_consensus

CalculateRewards ==
    /\ \E leader \in NodeIds \cup {"genesis"} :
            calculate_rewards(ConsensusRound_new(1, leader, DOMAIN validators))
    /\ UNCHANGED except_consensus

-----------------------------------------------------------------------------
(* Block rewards of two validators (test_dynamic_rewards, blockchain.rs:283-308) *)

RewardLatencies == {0 - 100 * FP, 0, 50 * FP, 500 * FP, 1000 * FP, 1500 * FP}
RewardPackets == {0, 10, 20, 50}
\* (delivery_success, delivery_failures)
RewardDeliveries == {<<0, 0>>, <<0, 1>>, <<1, 1>>, <<2, 1>>}
RewardScores == {FP \div 2, 9 * (FP \div 10)}

RewardMetrics ==
    {[NetworkMetrics_new(1000 * FP) EXCEPT !.average_latency = l,
                                          !.packets_routed = p,
                                          !.delivery_success = d[1],
                                          !.delivery_failures = d[2]] :
        l \in RewardLatencies, p \in RewardPackets, d \in RewardDeliveries}
    \cup {good_metrics, poor_metrics}

RewardInit ==
    reward_in \in [score : RewardScores, good : RewardMetrics,
                   poor : RewardMetrics]

RewardGood ==
    /\ Len(chain) = 1
    /\ \E ts \in Timestamps :
        create_block("good_node", reward_in.score, Some(reward_in.good), ts)
    /\ UNCHANGED except_ledger

RewardPoor ==
    /\ Len(chain) = 2
    /\ \E ts \in Timestamps :
        create_block("poor_node", reward_in.score, Some(reward_in.poor), ts)
    /\ UNCHANGED except_ledger

-----------------------------------------------------------------------------
(* ContentAddressing (content.rs:85-276) *)

\* ContentId::new: the SHA-256 digest of the bytes.
ContentId_new(data) == <<"sha256", data>>

\* A plausible slip: the id replaces the list of the key.
entry_push_insert(map, k, v) == (k :> <<v>>) @@ map

\* *map.entry(k).or_insert_with(Vec::new).push(v)
entry_push(map, k, v) ==
    IF k \in DOMAIN map THEN [map EXCEPT ![k] = Append(@, v)]
    ELSE map @@ (k :> <<v>>)

contains(seq, x) == \E i \in 1..Len(seq) : seq[i] = x

RECURSIVE push_tags(_, _, _)
push_tags(idx, tags, id) ==
    IF tags = <<>> THEN idx
    ELSE push_tags(entry_push(idx, Head(tags), id), Tail(tags), id)

\* A plausible slip: the new location replaces the list.
add_location_replace(locations, node_id) == <<node_id>>

\* A plausible slip: the location is pushed without the contains test.
add_location_dup(locations, node_id) == Append(locations, node_id)

\* lines 128-130
add_location(locations, node_id) ==
    IF ~contains(locations, node_id) THEN Append(locations, node_id)
    ELSE locations

\* A byte slice is known by its content and its length.
data_len(data) == data.len

\* A plausible slip: a registration of known bytes stores the metadata of the
\* call, as HashMap::insert would.
register_content_overwrite(data, content_type, node_id, tags) ==
    LET content_id == ContentId_new(data)
        now == content_now
        data_size == data_len(data)
    IN  /\ IF content_id \in DOMAIN content_map
           THEN /\ content_map' =
                    [content_map EXCEPT
                        ![content_id].locations = add_location(@, node_id),
                        ![content_id].last_verified = now,
                        ![content_id].content_type = content_type,
                        ![content_id].tags = tags]
                /\ UNCHANGED <<type_index, size_index, tag_index, access_counts>>
           ELSE /\ content_map' = map_insert(content_map, content_id,
                    [id |-> content_id, size |-> data_size,
                     content_type |-> content_type,
                     locations |-> <<node_id>>, last_verified |-> now,
                     tags |-> tags])
                /\ type_index' = entry_push(type_index, content_type, content_id)
                /\ tag_index' = push_tags(tag_index, tags, content_id)
                /\ size_index' = entry_push(size_index, data_size, content_id)
                /\ access_counts' = map_insert(access_counts, content_id, 0)
        /\ content_ret' = [op |-> "register_content", value |-> content_id]
        /\ registered' = registered \cup {<<data, node_id>>}
        /\ UNCHANGED <<content_now, find_pc, find_counted>>

register_content(data, content_type, node_id, tags) ==
    LET content_id == ContentId_new(data)
        now == content_now
        data_size == data_len(data)
    IN  /\ IF content_id \in DOMAIN content_map
           THEN /\ content_map' =
                    [content_map EXCEPT
                        ![content_id].locations = add_location(@, node_id),
                        ![content_id].last_verified = now]
                /\ UNCHANGED <<type_index, size_index, tag_index, access_counts>>
           ELSE /\ content_map' = map_insert(content_map, content_id,
                    [id |-> content_id, size |-> data_size,
                     content_type |-> content_type,
                     locations |-> <<node_id>>, last_verified |-> now,
                     tags |-> tags])
                /\ type_index' = entry_push(type_index, content_type, content_id)
                /\ tag_index' = push_tags(tag_index, tags, content_id)
                /\ size_index' = entry_push(size_index, data_size, content_id)
                /\ access_counts' = map_insert(access_counts, content_id, 0)
        /\ content_ret' = [op |-> "register_content", value |-> content_id]
        /\ registered' = registered \cup {<<data, node_id>>}
        /\ UNCHANGED <<content_now, find_pc, find_counted>>

\* find_content, lines 171-176: the access count is advanced under its own
\* lock, which is released before the content map is read.
find_content_count(id) ==
    /\ find_pc = None
    /\ id \in DOMAIN access_counts => access_counts[id] < MaxAccess
    /\ access_counts' =
        IF id \in DOMAIN access_counts
        THEN [access_counts EXCEPT ![id] = @ + 1] ELSE access_counts
    /\ find_pc' = Some(id)
    /\ find_counted' = (id \in DOMAIN access_counts)
    /\ UNCHANGED <<content_map, type_index, size_index, tag_index,
                   content_now, content_ret, registered>>

\* find_content, line 179
find_content_read ==
    /\ find_pc # None
    /\ content_ret' =
        [op |-> "find_content", id |-> find_pc[1],
         value |-> IF find_pc[1] \in DOMAIN content_map
                   THEN Some(content_map[find_pc[1]]) ELSE None]
    /\ find_pc' = None
    /\ UNCHANGED <<content_map, type_index, size_index, tag_index,
                   access_counts, content_now, registered, find_counted>>

get_content_locations(id) ==
    IF id \in DOMAIN content_map THEN content_map[id].locations ELSE <<>>

verify_content(id, node_id) ==
    LET found == id \in DOMAIN content_map
                 /\ contains(content_map[id].locations, node_id)
    IN  /\ content_map' =
            IF found
            THEN [content_map EXCEPT ![id].last_verified = content_now]
            ELSE content_map
        /\ content_ret' = [op |-> "verify_content", id |-> id, value |-> found]
        /\ UNCHANGED <<type_index, size_index, tag_index, access_counts,
                       content_now, find_pc, registered, find_counted>>

\* Bytes in a kilobyte (discovery/mod.rs:93).
KB == 1024

\* search_content_by_size, lines 222-233: the keys of size_index (the
\* data_size of lines 157-159) are compared with the two bounds.  The order
\* of the result follows the iteration of a HashMap; the model returns the
\* set of ids.
search_content_by_size(min_kb, max_kb) ==
    LET sizes == {size \in DOMAIN size_index : size >= min_kb /\ size <= max_kb}
        ids == UNION {{size_index[size][i] : i \in 1..Len(size_index[size])} :
                      size \in sizes}
    IN  /\ content_ret' =
            [op |-> "search_content_by_size", min_kb |-> min_kb,
             max_kb |-> max_kb,
             value |-> {id \in ids : id \in DOMAIN content_map}]
        /\ UNCHANGED <<content_map, type_index, size_index, tag_index,
                       access_counts, content_now, find_pc, registered,
                       find_counted>>

\* ContentIndex.size_index after index_content (discovery/mod.rs:91-98) of
\* every entry of contents: bucket size / 1024 -> set of ids.
ContentIndex_index_sizes(contents) ==
    LET size_kb(id) == contents[id].size \div KB
    IN  [kb \in {size_kb(id) : id \in DOMAIN contents} |->
            {id \in DOMAIN contents : size_kb(id) = kb}]

\* ContentIndex::search_by_size (discovery/mod.rs:118-126), for
\* min_kb <= max_kb (BTreeMap::range panics otherwise).
ContentIndex_search_by_size(sizes, min_kb, max_kb) ==
    UNION {sizes[kb] : kb \in {k \in DOMAIN sizes : k >= min_kb /\ k <= max_kb}}

(* Inputs of the registry operations *)
ContentData ==
    {[content |-> "Test content", len |-> 12],
     [content |-> "Other bytes!", len |-> 12],
     [content |-> "", len |-> 0]}
\* Node ids
node_a == <<1, 2, 3, 4>>
node_b == <<5>>
ContentNodes == {node_a, node_b}
\* (data, content_type, node_id, tags) of the register_content calls: the
\* first bytes come from two nodes and under two types, without tags in one
\* call, the second from one node with a tag list that names a tag twice;
\* the empty bytes are only looked up.
RegisterInputs ==
    LET d1 == [content |-> "Test content", len |-> 12]
        d2 == [content |-> "Other bytes!", len |-> 12]
    IN  {<<d1, "text/plain", node_a, <<"test">>>>,
         <<d1, "text/plain", node_b, <<"test">>>>,
         <<d1, "image/png", node_b, <<>>>>,
         <<d2, "image/png", node_a, <<"test", "png", "test">>>>}

\* (min_kb, max_kb) of the size searches.
SizeRanges == {<<0, 0>>, <<0, 12>>}

ContentInit ==
    /\ content_map = EmptyMap
    /\ type_index = EmptyMap
    /\ size_index = EmptyMap
    /\ tag_index = EmptyMap
    /\ access_counts = EmptyMap
    /\ content_now = 0
    /\ find_pc = None
    /\ content_ret = [op |-> "new"]
    /\ registered = {}
    /\ find_counted = FALSE

RegisterContent ==
    /\ \E r \in RegisterInputs : register_content(r[1], r[2], r[3], r[4])
    /\ UNCHANGED except_content

FindContentCount ==
    /\ \E data \in ContentData : find_content_count(ContentId_new(data))
    /\ UNCHANGED except_content

FindContentRead ==
    /\ find_content_read
    /\ UNCHANGED except_content

VerifyContent ==
    /\ \E data \in ContentData, node \in ContentNodes :
            verify_content(ContentId_new(data), node)
    /\ UNCHANGED except_content

SearchContentBySize ==
    /\ \E r \in SizeRanges : search_content_by_size(r[1], r[2])
    /\ UNCHANGED except_content

\* The wall clock advances between calls.
ContentTick ==
    /\ content_now < MaxTime
    /\ content_now' = content_now + 1
    /\ UNCHANGED <<content_map, type_index, size_index, tag_index,
                   access_counts, find_pc, content_ret, registered,
                   find_counted>>
    /\ UNCHANGED except_content

-----------------------------------------------------------------------------
(* Keypair, src/src/zhtp/crypto.rs *)

\* Result<T>
Ok(value) == [ok |-> TRUE, value |-> value]
Err(error) == [ok |-> FALSE, error |-> error]

\* line 14
KEY_ROTATION_INTERVAL == 24 * 60 * 60

\* Keypair::generate, lines 63-83.  The key material sampled by the two
\* keypair() calls is named by a seed.
Keypair_generate(seed, now) ==
    [public |-> <<"dilithium_pk", seed>>, secret |-> <<"dilithium_sk", seed>>,
     kyber_public |-> <<"kyber_pk", seed>>, kyber_secret |-> <<"kyber_sk", seed>>,
     created_at |-> now, rotation_due |-> now + KEY_ROTATION_INTERVAL]

\* A plausible slip: the key is refused a whole interval late.
needs_rotation_late(kp, now) == now > kp.rotation_due + KEY_ROTATION_INTERVAL

\* line 144
needs_rotation(kp, now) == now > kp.rotation_due

\* Keypair::get_status, lines 135-146
get_status(kp, now) ==
    [created_at |-> kp.created_at, rotation_due |-> kp.rotation_due,
     needs_rotation |-> needs_rotation(kp, now)]

\* Keypair::check_rotation, lines 149-156
check_rotation(kp, now) ==
    IF get_status(kp, now).needs_rotation THEN Err("Key rotation required")
    ELSE Ok(<<>>)

\* The signature scheme: a signature is valid for the message and the public
\* key whose secret key made it, and for nothing else.
detached_sign(message, secret) == <<"dilithium_sig", secret[2], message>>
verify_detached_signature(sig, message, public) ==
    sig = <<"dilithium_sig", public[2], message>>

\* DetachedSignature::from_bytes accepts the byte strings of signature length.
signature_from_bytes(bytes) ==
    IF bytes # <<>> /\ bytes[1] = "dilithium_sig" THEN Ok(bytes)
    ELSE Err("Invalid signature format")

\* Signature::empty, lines 52-54
Signature_empty == <<>>

\* Keypair::sign, lines 86-90
Keypair_sign(kp, message, now) ==
    IF ~check_rotation(kp, now).ok THEN check_rotation(kp, now)
    ELSE Ok(detached_sign(message, kp.secret))

\* Keypair::verify, lines 93-98
Keypair_verify(kp, message, signature) ==
    IF ~signature_from_bytes(signature).ok THEN signature_from_bytes(signature)
    ELSE Ok(verify_detached_signature(signature, message, kp.public))

\* The encapsulation scheme: encapsulate draws a secret r for a public key;
\* decapsulate recovers it with the matching secret key and yields an
\* unrelated value with any other.
kyber_encapsulate(public, r) ==
    [shared_secret |-> <<"shared", r>>, ciphertext |-> <<"kyber_ct", public[2], r>>]
kyber_decapsulate(ct, secret) ==
    IF ct[2] = secret[2] THEN <<"shared", ct[3]>> ELSE <<"rejected", ct, secret[2]>>
ciphertext_from_bytes(bytes) ==
    IF bytes # <<>> /\ bytes[1] = "kyber_ct" THEN Ok(bytes)
    ELSE Err("Invalid Kyber ciphertext")

\* Keypair::encapsulate_key, lines 101-119
Keypair_encapsulate_key(kp, r, now) ==
    IF ~check_rotation(kp, now).ok THEN check_rotation(kp, now)
    ELSE LET e == kyber_encapsulate(kp.kyber_public, r)
         IN  Ok(<<e.shared_secret,
                  [kyber_ciphertext |-> e.ciphertext, timestamp |-> now]>>)

\* Keypair::decapsulate_key, lines 122-132
Keypair_decapsulate_key(kp, package, now) ==
    IF ~check_rotation(kp, now).ok THEN check_rotation(kp, now)
    ELSE IF ~ciphertext_from_bytes(package.kyber_ciphertext).ok
         THEN ciphertext_from_bytes(package.kyber_ciphertext)
         ELSE Ok(kyber_decapsulate(package.kyber_ciphertext, kp.kyber_secret))

\* Keypair::needs_immediate_rotation, lines 164-166
needs_immediate_rotation(kp) == [kp EXCEPT !.rotation_due = 0]

(* Inputs of the key operations *)
KeyMessages == {"Test message", "Hello"}
\* Signatures offered to verify: none, and those of the first two keypairs
\* over the first message.
KeySignatures ==
    {Signature_empty} \cup
    {detached_sign("Test message", <<"dilithium_sk", seed>>) : seed \in 0..1}
\* Packages offered to decapsulate_key.
KeyPackages ==
    {[kyber_ciphertext |-> <<>>, timestamp |-> 0]} \cup
    {[kyber_ciphertext |-> kyber_encapsulate(<<"kyber_pk", seed>>, 0).ciphertext,
      timestamp |-> 0] : seed \in 0..1}
\* Seconds by which the clock is seen to advance.
ClockSteps == {1, KEY_ROTATION_INTERVAL}

\* The seed of the keypair in use.
key_seed == keypair.public[2]

\* What a call leaves for its caller: the operation, the clock and the
\* keypair it ran with, its arguments and its result.
key_call(op, args, result) ==
    [op |-> op, now |-> key_now, keypair |-> keypair, args |-> args,
     result |-> result]

\* A node starts with a fresh keypair.
KeyInitAt(now) ==
    /\ key_now = now
    /\ keypair = Keypair_generate(0, now)
    /\ key_ticks = 0
    /\ key_ret = [op |-> "generate"]

KeyInit == KeyInitAt(1)

\* The clock reads 0 when it stands at or before the epoch
\* (unwrap_or_default, lines 70-73).
KeyStartTimes == {0, 1}

\* Keypair::rotate, lines 159-161: the caller replaces its keypair.
KeyRotate ==
    /\ key_seed < MaxKeys
    /\ keypair' = Keypair_generate(key_seed + 1, key_now)
    /\ key_ret' = [op |-> "rotate"]
    /\ UNCHANGED <<key_now, key_ticks>>
    /\ UNCHANGED except_key

NeedsImmediateRotation ==
    /\ keypair' = needs_immediate_rotation(keypair)
    /\ key_ret' = [op |-> "needs_immediate_rotation"]
    /\ UNCHANGED <<key_now, key_ticks>>
    /\ UNCHANGED except_key

KeySign ==
    /\ \E message \in KeyMessages :
        key_ret' = key_call("sign", <<message>>,
                            Keypair_sign(keypair, message, key_now))
    /\ UNCHANGED <<keypair, key_now, key_ticks>>
    /\ UNCHANGED except_key

KeyVerify ==
    /\ \E message \in KeyMessages, signature \in KeySignatures :
        key_ret' = key_call("verify", <<message, signature>>,
                            Keypair_verify(keypair, message, signature))
    /\ UNCHANGED <<keypair, key_now, key_ticks>>
    /\ UNCHANGED except_key

KeyEncapsulate ==
    /\ key_ret' = key_call("encapsulate_key", <<>>,
                           Keypair_encapsulate_key(keypair, 0, key_now))
    /\ UNCHANGED <<keypair, key_now, key_ticks>>
    /\ UNCHANGED except_key

KeyDecapsulate ==
    /\ \E package \in KeyPackages :
        key_ret' = key_call("decapsulate_key", <<package>>,
                            Keypair_decapsulate_key(keypair, package, key_now))
    /\ UNCHANGED <<keypair, key_now, key_ticks>>
    /\ UNCHANGED except_key

\* The system clock advances between calls.
KeyTick ==
    /\ key_ticks < MaxKeyTicks
    /\ \E d \in ClockSteps : key_now' = key_now + d
    /\ key_ticks' = key_ticks + 1
    /\ UNCHANGED <<keypair, key_ret>>
    /\ UNCHANGED except_key

-----------------------------------------------------------------------------
(* The overlay network: Packet, NetworkCondition, Network, Node (network.rs) *)

\* Packet.max_hops, line 32
max_hops == 10

\* Packet::new, lines 20-35.  tracking_no and path are history fields of the
\* model: the position of the packet in the order of the send_packet calls
\* and the nodes recorded by record_visit, in order.  Packet.size, which no
\* operation reads but to pass it to update_routing_metrics (which ignores
\* it), is left out.
Packet_new(source, destination, payload, timestamp, tracking_no) ==
    [source |-> source, destination |-> destination, payload |-> payload,
     timestamp |-> timestamp, visited_nodes |-> {source},
     max_hops |-> max_hops, hop_count |-> 0,
     tracking_no |-> tracking_no, path |-> <<source>>]

\* A plausible slip: one hop more is let through.
increment_hop_lenient(packet) ==
    [packet |-> [packet EXCEPT !.hop_count = @ + 1],
     ok |-> packet.hop_count + 1 <= packet.max_hops + 1]

\* Packet::increment_hop, lines 37-40: the packet after the call and the
\* value returned.
increment_hop(packet) ==
    [packet |-> [packet EXCEPT !.hop_count = @ + 1],
     ok |-> packet.hop_count + 1 <= packet.max_hops]

\* Packet::has_visited, lines 42-44
has_visited(packet, node_id) == node_id \in packet.visited_nodes

\* Packet::record_visit, lines 46-48
record_visit(packet, node_id) ==
    [packet EXCEPT !.visited_nodes = @ \cup {node_id},
                   !.path = IF node_id \in packet.visited_nodes THEN @
                            ELSE Append(@, node_id)]

\* NetworkCondition::default, lines 58-66
NetworkCondition_default ==
    [packet_loss_rate |-> 0, latency_multiplier |-> FP, bandwidth_cap |-> None]

\* Node::new, lines 500-507
Node_new(id, stake) ==
    [id |-> id, connections |-> <<>>, metrics |-> NetworkMetrics_new(stake),
     received_messages |-> <<>>]

\* Network::new, lines 93-100.  sent_log is a history field of the model:
\* for each send_packet call, in order, the tracking key of its packet, how
\* often process_messages took the packet from the queue, how often its
\* payload was appended to received_messages and how often
\* handle_failed_delivery was called for it.
Network_new ==
    [nodes |-> EmptyMap, message_queue |-> <<>>, delivery_tracking |-> EmptyMap,
     network_conditions |-> EmptyMap, sent_log |-> <<>>]

\* format!("{}:{}:{}", source, destination, timestamp): injective on the ids
\* of the model, none of which holds a colon.
tracking_id(source, destination, timestamp) == <<source, destination, timestamp>>

\* Network::add_node, lines 103-108
add_node(net, id, stake) ==
    [net EXCEPT !.nodes = map_insert(@, id, Node_new(id, stake)),
                !.network_conditions = map_insert(@, id, NetworkCondition_default)]

\* Network::set_node_condition, lines 110-113
set_node_condition(net, node_id, condition) ==
    [net EXCEPT !.network_conditions = map_insert(@, node_id, condition)]

\* Network::connect_nodes, lines 115-125
connect_nodes(net, node1, node2) ==
    LET nodes1 == IF node1 \in DOMAIN net.nodes
                  THEN [net.nodes EXCEPT ![node1].connections = Append(@, node2)]
                  ELSE net.nodes
        nodes2 == IF node2 \in DOMAIN nodes1
                  THEN [nodes1 EXCEPT ![node2].connections = Append(@, node1)]
                  ELSE nodes1
    IN  [net EXCEPT !.nodes = nodes2]

\* Network::disconnect_node, lines 127-132
disconnect_node(net, node_id) ==
    [net EXCEPT !.nodes =
        [id \in DOMAIN net.nodes |->
            [net.nodes[id] EXCEPT !.connections =
                SelectSeq(@, LAMBDA conn : conn # node_id)]]]

\* Network::send_packet, lines 134-146
send_packet(net, source, destination, payload, timestamp) ==
    LET packet == Packet_new(source, destination, payload, timestamp,
                             Len(net.sent_log) + 1)
    IN  [net EXCEPT
            !.delivery_tracking =
                map_insert(@, tracking_id(source, destination, timestamp), FALSE),
            !.message_queue = Append(@, packet),
            !.sent_log = Append(@, [tracking_id |->
                                        tracking_id(source, destination, timestamp),
                                    processed |-> 0, delivered |-> 0,
                                    failed |-> 0])]

\* The metrics of a node replaced.
with_metrics(net, node_id, metrics) ==
    [net EXCEPT !.nodes[node_id].metrics = metrics]

\* Network::handle_failed_delivery, lines 148-161
handle_failed_delivery(net, node_id, packet) ==
    LET net1 == IF node_id \in DOMAIN net.nodes
                THEN with_metrics(net, node_id,
                        update_reputation(
                            update_failed_routing(net.nodes[node_id].metrics),
                            FALSE))
                ELSE net
    IN  [net1 EXCEPT
            !.delivery_tracking =
                map_insert(@, tracking_id(packet.source, packet.destination,
                                          packet.timestamp), TRUE),
            !.sent_log[packet.tracking_no].failed = @ + 1]

\* network_conditions.get(id).cloned().unwrap_or_default()
condition_of(net, node_id) ==
    IF node_id \in DOMAIN net.network_conditions
    THEN net.network_conditions[node_id] ELSE NetworkCondition_default

\* nodes.get(id).map(|n| n.metrics.reputation_score).unwrap_or(default)
reputation_of(net, node_id, default) ==
    IF node_id \in DOMAIN net.nodes
    THEN net.nodes[node_id].metrics.reputation_score ELSE default

\* packet_loss_rate * latency_multiplier
loss_times_latency(condition) ==
    Mul(condition.packet_loss_rate, condition.latency_multiplier)

\* gen_range(10.0..200.0), line 314: the draw is represented by one value of
\* the range.
BaseLatencies == {100 * FP}

\* Network::calculate_node_latency, lines 313-320: the values it may return.
calculate_node_latency(net, node_id) ==
    {IF node_id \in DOMAIN net.network_conditions
     THEN Mul(base_latency, net.network_conditions[node_id].latency_multiplier)
     ELSE base_latency : base_latency \in BaseLatencies}

\* Node::receive_packet, lines 509-513
receive_packet(node, packet) ==
    IF packet.destination = node.id
    THEN [node EXCEPT !.received_messages = Append(@, packet.payload)]
    ELSE node

\* Network::attempt_delivery, lines 163-212: the outcomes of the call, one
\* for each result of the random draws of lines 183 and 198.  The draw of
\* line 183 lies in [0, 1): it can fall below final_drop_rate exactly when
\* that rate is positive, and at or above it always, the rate being at most
\* 0.95.
attempt_delivery(net, packet) ==
    LET dest_id == packet.destination
        source_id == packet.source
        condition == condition_of(net, dest_id)
        reputation == reputation_of(net, dest_id, FP)
        base_drop_rate == loss_times_latency(condition)
        rep_penalty == Mul(FP - reputation, FP - reputation)
        final_drop_rate == Min(base_drop_rate + Mul(rep_penalty, base_drop_rate),
                               19 * (FP \div 20))
        dropped ==
            IF dest_id \in DOMAIN net.nodes
            THEN LET m == net.nodes[dest_id].metrics
                     m1 == IF base_drop_rate < 3 * (FP \div 10)
                              /\ reputation > FP \div 2
                           THEN update_reputation(m, FALSE) ELSE m
                 IN  with_metrics(net, dest_id, update_failed_routing(m1))
            ELSE net
        delivered(latency) ==
            LET node1 == receive_packet(net.nodes[dest_id], packet)
                node2 == [node1 EXCEPT !.metrics =
                             update_routing_metrics(@, latency)]
                net1 == [net EXCEPT
                    !.nodes[dest_id] = node2,
                    !.delivery_tracking =
                        map_insert(@, tracking_id(source_id, dest_id,
                                                  packet.timestamp), TRUE),
                    !.sent_log[packet.tracking_no].delivered =
                        IF packet.destination = net.nodes[dest_id].id
                        THEN @ + 1 ELSE @]
            IN  IF source_id \in DOMAIN net1.nodes
                THEN with_metrics(net1, source_id,
                        update_reputation(net1.nodes[source_id].metrics, TRUE))
                ELSE net1
    IN  (IF dest_id \notin DOMAIN net.nodes \/ final_drop_rate > 0
         THEN {[ok |-> FALSE, net |-> dropped]} ELSE {})
        \cup
        (IF dest_id \in DOMAIN net.nodes
         THEN {[ok |-> TRUE, net |-> delivered(latency)] :
                    latency \in calculate_node_latency(net, dest_id)}
         ELSE {})

\* Network::try_forward_packet, lines 214-311: the outcomes of the call.
\* final_drop_rate lies in [0.05, 0.95]: the draw of line 251 can fall on
\* either side of it.
try_forward_packet(net, new_messages, packet, next_hop) ==
    LET condition == condition_of(net, next_hop)
        reputation == reputation_of(net, next_hop, FP)
        expected_fails == loss_times_latency(condition)
        dropped(latency) ==
            IF next_hop \in DOMAIN net.nodes
            THEN LET m1 == update_routing_metrics(net.nodes[next_hop].metrics,
                                                  2 * latency)
                     m2 == IF expected_fails < 3 * (FP \div 10)
                              /\ reputation > 4 * (FP \div 5)
                           THEN update_reputation(m1, FALSE)
                           ELSE IF expected_fails < FP \div 2
                                   /\ reputation > 3 * (FP \div 5)
                                THEN update_reputation(m1, FALSE)
                                ELSE m1
                 IN  with_metrics(net, next_hop, update_failed_routing(m2))
            ELSE net
        forwarded(latency) ==
            LET m1 == update_routing_metrics(net.nodes[next_hop].metrics, latency)
                difficulty == expected_fails
                boost_count == IF difficulty > 4 * (FP \div 5) THEN 3
                               ELSE IF difficulty > FP \div 2 THEN 2 ELSE 1
                RECURSIVE boost(_, _)
                boost(m, n) == IF n = 0 THEN m
                               ELSE boost(update_reputation(m, TRUE), n - 1)
                m2 == boost(m1, boost_count)
                m3 == IF m2.reputation_score > 7 * (FP \div 10)
                         /\ difficulty < 3 * (FP \div 10)
                      THEN update_reputation(m2, TRUE) ELSE m2
            IN  [ok |-> TRUE, net |-> with_metrics(net, next_hop, m3),
                 new_messages |-> Append(new_messages,
                                         record_visit(packet, next_hop))]
    IN  {[ok |-> FALSE, net |-> dropped(latency), new_messages |-> new_messages] :
            latency \in calculate_node_latency(net, next_hop)}
        \cup
        (IF next_hop \in DOMAIN net.nodes
         THEN {forwarded(latency) :
                    latency \in calculate_node_latency(net, next_hop)}
         ELSE {})

\* Network::evaluate_node_score, lines 323-345
evaluate_node_score(net, node_id) ==
    LET reputation == reputation_of(net, node_id, 0)
        drop_rate == loss_times_latency(condition_of(net, node_id))
        condition_multiplier ==
            FP - Min(Mul(drop_rate, 3 * (FP \div 2)), 3 * (FP \div 5))
        score == Mul(reputation, condition_multiplier)
    IN  Max(Min(score + FP \div 20, 19 * (FP \div 20)), FP \div 20)

\* A plausible slip: the visited nodes are not left out.
unvisited_all(packet, connections) == connections

\* lines 379-383: the connections the packet has not visited, in order.
unvisited(packet, connections) ==
    SelectSeq(connections, LAMBDA conn : ~has_visited(packet, conn))

\* lines 388-404: the comparison of the sort, TRUE when a goes before b.
goes_before(net, a, b) ==
    LET a_loss == IF a.id \in DOMAIN net.network_conditions
                  THEN net.network_conditions[a.id].packet_loss_rate ELSE 0
        b_loss == IF b.id \in DOMAIN net.network_conditions
                  THEN net.network_conditions[b.id].packet_loss_rate ELSE 0
    IN  IF b.score = a.score THEN a_loss < b_loss ELSE b.score < a.score

\* Vec::sort_by: a stable sort.
sort_by(net, seq) ==
    LET RECURSIVE insert(_, _)
        insert(sorted, x) ==
            IF sorted = <<>> THEN <<x>>
            ELSE IF goes_before(net, x, sorted[Len(sorted)])
                 THEN Append(insert(SubSeq(sorted, 1, Len(sorted) - 1), x),
                             sorted[Len(sorted)])
                 ELSE Append(sorted, x)
        RECURSIVE sort(_, _)
        sort(sorted, i) == IF i > Len(seq) THEN sorted
                           ELSE sort(insert(sorted, seq[i]), i + 1)
    IN  sort(<<>>, 1)

\* lines 376-404: the next hops to try, best first.
candidates(net, packet, current_id) ==
    LET conns == IF current_id \in DOMAIN net.nodes
                 THEN unvisited(packet, net.nodes[current_id].connections)
                 ELSE <<>>
    IN  sort_by(net, [i \in 1..Len(conns) |->
                        [id |-> conns[i],
                         score |-> evaluate_node_score(net, conns[i])]])

\* lines 426-445: the penalty of a candidate that did not forward.
penalize_attempt(net, next_hop) ==
    IF next_hop \in DOMAIN net.nodes
    THEN LET expected_fails == loss_times_latency(condition_of(net, next_hop))
             m == net.nodes[next_hop].metrics
             m1 == IF expected_fails < 3 * (FP \div 10)
                      /\ m.reputation_score > 4 * (FP \div 5)
                   THEN update_reputation(m, FALSE) ELSE m
         IN  with_metrics(net, next_hop, update_failed_routing(m1))
    ELSE net

\* lines 449-465: no candidate forwarded the packet.
give_up(net, attempted_nodes, current_id, packet) ==
    LET RECURSIVE penalize(_, _)
        penalize(n, i) ==
            IF i > Len(attempted_nodes) THEN n
            ELSE LET next_hop == attempted_nodes[i]
                     expected_fails ==
                        loss_times_latency(condition_of(n, next_hop))
                 IN  IF next_hop \in DOMAIN n.nodes
                        /\ expected_fails < FP \div 5
                        /\ n.nodes[next_hop].metrics.reputation_score
                                > 4 * (FP \div 5)
                     THEN penalize(with_metrics(n, next_hop,
                            update_failed_routing(
                                update_reputation(n.nodes[next_hop].metrics,
                                                  FALSE))), i + 1)
                     ELSE penalize(n, i + 1)
    IN  handle_failed_delivery(penalize(net, 1), current_id, packet)

\* lines 406-465: the outcomes of trying the candidates from the i-th on.
RECURSIVE forward_from(_, _, _, _, _, _)
forward_from(net, new_messages, packet, current_id, cands, i) ==
    IF i > Len(cands)
    THEN {[net |-> give_up(net, [j \in 1..Len(cands) |-> cands[j].id],
                           current_id, packet),
           new_messages |-> new_messages]}
    ELSE UNION {
            IF r.ok THEN {[net |-> r.net, new_messages |-> r.new_messages]}
            ELSE forward_from(penalize_attempt(r.net, cands[i].id),
                              r.new_messages, packet, current_id, cands, i + 1) :
            r \in try_forward_packet(net, new_messages, packet, cands[i].id)}

\* A plausible slip: a delivered packet goes on to be forwarded.
delivery_ends_never(can_deliver_direct, delivered) == FALSE

\* lines 364-366: the packet is done when it was delivered to a neighbour.
delivery_ends(can_deliver_direct, delivered) == can_deliver_direct /\ delivered

\* lines 350-466, the body of the loop: the outcomes of processing the packet
\* taken from the queue.  visited_nodes.iter().last() (lines 357, 369-374)
\* is the last element in the iteration order of a HashSet, which may be any
\* of its elements.
process_packet(net, new_messages, taken) ==
    LET hop == increment_hop(taken)
        packet == hop.packet
        counted == [net EXCEPT !.sent_log[packet.tracking_no].processed = @ + 1]
        from(current_id) ==
            LET can_deliver_direct ==
                    /\ current_id \in DOMAIN counted.nodes
                    /\ contains(counted.nodes[current_id].connections,
                                packet.destination)
                tries == IF can_deliver_direct
                         THEN attempt_delivery(counted, packet)
                         ELSE {[ok |-> FALSE, net |-> counted]}
            IN  UNION {
                    IF delivery_ends(can_deliver_direct, r.ok)
                    THEN {[net |-> r.net, new_messages |-> new_messages]}
                    ELSE forward_from(r.net, new_messages, packet, current_id,
                                      candidates(r.net, packet, current_id), 1) :
                    r \in tries}
    IN  IF ~hop.ok
        THEN {[net |-> handle_failed_delivery(counted, packet.source, packet),
               new_messages |-> new_messages]}
        ELSE UNION {from(current_id) : current_id \in packet.visited_nodes}

\* Network::process_messages, lines 347-469: the states the call may leave.
RECURSIVE process_queue(_, _, _)
process_queue(net, queue, new_messages) ==
    IF queue = <<>>
    THEN {[net EXCEPT !.message_queue = new_messages]}
    ELSE UNION {process_queue(r.net, Tail(queue), r.new_messages) :
                    r \in process_packet(net, new_messages, Head(queue))}

process_messages(net) == process_queue(net, net.message_queue, <<>>)

\* Network::get_delivery_success_rate, lines 475-488
Network_get_delivery_success_rate(net) ==
    LET total == Cardinality(DOMAIN net.delivery_tracking)
        successful == Cardinality({id \in DOMAIN net.delivery_tracking :
                                        net.delivery_tracking[id]})
    IN  IF total = 0 THEN FP ELSE RoundDiv(successful * FP, total)

(* Inputs of the network operations *)

\* The network of test_degraded_network, lines 526-564: a diamond
\* node1 - {node2, node3} - node4 with a poor node2 and a fair node3.
poor_condition ==
    [packet_loss_rate |-> 9 * (FP \div 10), latency_multiplier |-> 5 * FP,
     bandwidth_cap |-> Some(100)]
fair_condition ==
    [packet_loss_rate |-> FP \div 20, latency_multiplier |-> 11 * (FP \div 10),
     bandwidth_cap |-> Some(10000)]
node_stake == 1000 * FP
DiamondNetwork ==
    LET n1 == add_node(Network_new, "node1", node_stake)
        n2 == add_node(n1, "node2", node_stake)
        n3 == add_node(n2, "node3", node_stake)
        n4 == add_node(n3, "node4", node_stake)
        c1 == connect_nodes(n4, "node1", "node2")
        c2 == connect_nodes(c1, "node1", "node3")
        c3 == connect_nodes(c2, "node2", "node4")
        c4 == connect_nodes(c3, "node3", "node4")
        d2 == set_node_condition(c4, "node2", NetworkCondition_default)
        d3 == set_node_condition(d2, "node3", NetworkCondition_default)
        p2 == set_node_condition(d3, "node2", poor_condition)
    IN  set_node_condition(p2, "node3", fair_condition)

\* add_node: a node that exists and one that does not.
AddInputs == {"node3", "node5"}
\* set_node_condition: the destination becomes lossy, the fair node poor.
ConditionInputs == {<<"node4", fair_condition>>, <<"node3", poor_condition>>}
\* connect_nodes: a shortcut to the destination, and a link to a node that
\* was never added.
ConnectInputs == {<<"node1", "node4">>, <<"node3", "node5">>}
DisconnectInputs == {"node3", "node4"}
\* (source, destination, payload) of send_packet.
SendInputs == {<<"node1", "node4", "Message 0">>}

\* A line of max_hops + 2 nodes, built by add_node and connect_nodes, and a
\* destination that is no node of it.
LineNodes ==
    <<"n01", "n02", "n03", "n04", "n05", "n06", "n07", "n08", "n09", "n10",
      "n11", "n12">>
LineNetwork ==
    LET RECURSIVE added(_)
        added(i) == IF i = 0 THEN Network_new
                    ELSE add_node(added(i - 1), LineNodes[i], node_stake)
        RECURSIVE connected(_)
        connected(i) == IF i = 0 THEN added(Len(LineNodes))
                        ELSE connect_nodes(connected(i - 1),
                                           LineNodes[i], LineNodes[i + 1])
    IN  connected(Len(LineNodes) - 1)
LineSendInputs == {<<"n01", "offline", "Message 0">>}

NetworkInitAt(net) ==
    /\ network = net
    /\ net_now = 0
    /\ net_calls = 0
    /\ net_setup = 0

\* Network::new
NetworkInit == NetworkInitAt(Network_new)

AddNode ==
    /\ net_setup < MaxSetup
    /\ \E id \in AddInputs : network' = add_node(network, id, node_stake)
    /\ net_setup' = net_setup + 1
    /\ UNCHANGED <<net_now, net_calls>>
    /\ UNCHANGED except_network

SetNodeCondition ==
    /\ net_setup < MaxSetup
    /\ \E c \in ConditionInputs : network' = set_node_condition(network, c[1], c[2])
    /\ net_setup' = net_setup + 1
    /\ UNCHANGED <<net_now, net_calls>>
    /\ UNCHANGED except_network

ConnectNodes ==
    /\ net_setup < MaxSetup
    /\ \E c \in ConnectInputs : network' = connect_nodes(network, c[1], c[2])
    /\ net_setup' = net_setup + 1
    /\ UNCHANGED <<net_now, net_calls>>
    /\ UNCHANGED except_network

DisconnectNode ==
    /\ net_setup < MaxSetup
    /\ \E id \in DisconnectInputs : network' = disconnect_node(network, id)
    /\ net_setup' = net_setup + 1
    /\ UNCHANGED <<net_now, net_calls>>
    /\ UNCHANGED except_network

\* send_packet reads the clock (line 139), which does not run backwards.
send_at(inputs) ==
    /\ Len(network.sent_log) < MaxPackets
    /\ \E s \in inputs, timestamp \in {net_now, net_now + 1} :
        /\ timestamp <= MaxTime
        /\ network' = send_packet(network, s[1], s[2], s[3], timestamp)
        /\ net_now' = timestamp
    /\ net_calls' = 0
    /\ UNCHANGED net_setup

SendPacket ==
    /\ send_at(SendInputs)
    /\ UNCHANGED except_network

LineSendPacket ==
    /\ send_at(LineSendInputs)
    /\ UNCHANGED except_network

\* The sending loop of test_degraded_network, lines 577-583: packets with
\* one source and one destination, sent within a second or a second apart.
LoopSendPacket ==
    /\ Len(network.sent_log) < MaxTracked
    /\ \E s \in SendInputs, timestamp \in {net_now, net_now + 1} :
        /\ timestamp <= MaxTime
        /\ network' = send_packet(network, s[1], s[2], s[3], timestamp)
        /\ net_now' = timestamp
    /\ net_calls' = 0
    /\ UNCHANGED net_setup
    /\ UNCHANGED except_network

\* net_calls counts the process_messages calls that found a packet in the
\* queue since the last send_packet.
ProcessMessages ==
    /\ net_calls <= max_hops + 1
    /\ \E net \in process_messages(network) : network' = net
    /\ net_calls' = IF network.message_queue = <<>> THEN net_calls
                    ELSE net_calls + 1
    /\ UNCHANGED <<net_now, net_setup>>
    /\ UNCHANGED except_network

-----------------------------------------------------------------------------
(* The ZHTP node: ZhtpPacket, ZhtpNode (src/src/zhtp/mod.rs) *)

\* A SocketAddr is an IP address, given by its 4 or 16 octets, and a port.
SocketAddr(ip, port) == [ip |-> ip, port |-> port]

\* u16::to_be_bytes
to_be_bytes(port) == <<port \div 256, port % 256>>

\* n zero bytes
zeros(n) == [i \in 1..n |-> 0]

\* ZhtpNode::commit_destination, lines 142-155
commit_destination(addr) ==
    LET port_bytes == to_be_bytes(addr.port)
        ip_bytes == addr.ip
        copy_len == Min(Len(ip_bytes), 6)
    IN  port_bytes \o SubSeq(ip_bytes, 1, copy_len) \o zeros(30 - copy_len)

\* The reserved payloads, lines 186, 204, 254.
\* A payload is a byte string; these two are the literals of the handshake.
ZHTP_HANDSHAKE == <<"ZHTP_HANDSHAKE">>
ZHTP_ACK == <<"ZHTP_ACK">>

\* bincode::serialize(&header): injective on headers.
serialize_header(header) == <<"bincode", header>>

\* RoutingTable::new and RoutingTable::update_node (zhtp/routing.rs, not among
\* the sources): the table maps a node address to its connection set, and
\* update_node(addr, Some(connections)) records that set for addr.
RoutingTable_new == EmptyMap
update_node(table, addr, connections) ==
    IF connections = None THEN table
    ELSE map_insert(table, addr, connections[1])

\* ZhtpNode::new, lines 122-135 (the content store and the runtime, which
\* the packet operations do not touch, are left out).
ZhtpNode_new(addr, kp) ==
    [addr |-> addr, keypair |-> kp, routing_table |-> RoutingTable_new,
     message_handler |-> None]

\* ZhtpNode::create_packet, lines 224-243; rand::random() draws id.
\* `destination` is a history field of the model: the address the packet
\* was committed to.
ZhtpNode_create_packet(node, destination, payload, id, now) ==
    LET header == [id |-> id, source_addr |-> Some(node.addr),
                   destination_commitment |-> commit_destination(destination),
                   ttl |-> 32, routing_metadata |-> <<>>]
        signature == Keypair_sign(node.keypair, serialize_header(header), now)
    IN  IF ~signature.ok THEN signature
        ELSE Ok([header |-> header, payload |-> payload, key_package |-> None,
                 routing_proof |-> [proof |-> <<>>, public_inputs |-> <<>>],
                 signature |-> signature.value,
                 destination |-> destination])

\* lines 190-193, 208-211: the sender becomes the connection set of this node.
with_connection(node, source_addr) ==
    [node EXCEPT !.routing_table =
        update_node(@, node.addr, Some({source_addr}))]

\* ZhtpNode::process_packet, lines 181-222: the outcomes of the call, one
\* for each result of send_to (line 247).  An outcome is the node after the
\* call, the datagrams it sent and the value returned.
ZhtpNode_process_packet(node, packet, now) ==
    IF packet.header.destination_commitment = commit_destination(node.addr)
    THEN IF packet.payload = ZHTP_HANDSHAKE /\ packet.header.source_addr # None
         THEN LET source_addr == packet.header.source_addr[1]
                  node1 == with_connection(node, source_addr)
                  response == ZhtpNode_create_packet(node1, source_addr,
                                                     ZHTP_ACK, 0, now)
              IN  IF ~response.ok
                  THEN {[node |-> node1, sent |-> {}, result |-> response]}
                  ELSE {[node |-> node1,
                         sent |-> {[packet |-> response.value, to |-> source_addr]},
                         result |-> Ok(packet.payload)],
                        [node |-> node1, sent |-> {},
                         result |-> Err("send_to failed")]}
         ELSE IF packet.payload = ZHTP_ACK /\ packet.header.source_addr # None
              THEN {[node |-> with_connection(node, packet.header.source_addr[1]),
                     sent |-> {}, result |-> Ok(packet.payload)]}
              ELSE {[node |-> node, sent |-> {}, result |-> Ok(packet.payload)]}
    ELSE {[node |-> node, sent |-> {}, result |-> Ok(<<>>)]}

\* What connect may find on the socket within the 5 s, lines 268-288: a
\* datagram from the peer, a datagram from another address, a receive
\* error, or nothing.
ConnectDraws == {"peer", "other", "recv_error", "timeout"}

\* ZhtpNode::connect, lines 251-289: the outcomes of the call.
ZhtpNode_connect(node, peer, now) ==
    LET packet == ZhtpNode_create_packet(node, peer, ZHTP_HANDSHAKE, 0, now)
        node1 == with_connection(node, peer)
        sent == {[packet |-> packet.value, to |-> peer]}
    IN  IF ~packet.ok
        THEN {[node |-> node, sent |-> {}, result |-> packet]}
        ELSE {[node |-> node, sent |-> {}, result |-> Err("send_to failed")]}
             \cup
             {[node |-> node1, sent |-> sent,
               result |-> IF draw = "peer" THEN Ok(<<>>)
                          ELSE IF draw = "other"
                               THEN Err("Received response from wrong peer")
                          ELSE IF draw = "recv_error"
                               THEN Err("Error receiving response")
                          ELSE Err("Connection timeout")] :
                draw \in ConnectDraws}

\* ZhtpNode::set_message_handler, lines 312-314
set_message_handler(node, handler) ==
    [node EXCEPT !.message_handler = Some(handler)]

\* ZhtpNode::force_immediate_rotation, lines 307-310
force_immediate_rotation(node) ==
    [node EXCEPT !.keypair = needs_immediate_rotation(@)]

\* The addresses of the model: two IPv4 endpoints and two IPv6 endpoints of
\* one network, 2001:db8::1 and 2001:db8::2.
SelfV4 == SocketAddr(<<10, 0, 0, 1>>, 8000)
PeerAddr == SocketAddr(<<10, 0, 0, 2>>, 8000)
SelfV6 == SocketAddr(<<32, 1, 13, 184>> \o zeros(11) \o <<1>>, 8000)
OtherV6 == SocketAddr(<<32, 1, 13, 184>> \o zeros(11) \o <<2>>, 8000)
NodeAddresses == {SelfV4, PeerAddr, SelfV6, OtherV6}

\* The peer, and the packets that reach the node: packets the peer made,
\* and those packets with the signature removed, with the signature of
\* another key, or with the source address removed.
Peer == ZhtpNode_new(PeerAddr, Keypair_generate(2, 0))
Payloads == {ZHTP_HANDSHAKE, ZHTP_ACK, <<"hello">>}
PeerPackets ==
    {ZhtpNode_create_packet(Peer, d, p, 0, 1).value :
        d \in NodeAddresses, p \in Payloads}
PacketInputs ==
    PeerPackets
    \cup {[p EXCEPT !.signature = Signature_empty] : p \in PeerPackets}
    \cup {[p EXCEPT !.signature =
              detached_sign(serialize_header(p.header),
                            Keypair_generate(3, 0).secret)] : p \in PeerPackets}
    \cup {[p EXCEPT !.header.source_addr = None] : p \in PeerPackets}

\* the value an operation of the node returned, and the node before it
znode_call(op, arg, before, sent, result) ==
    [op |-> op, arg |-> arg, before |-> before, sent |-> sent,
     result |-> result]

ZhtpNodeInitAt(addr) ==
    /\ znode = ZhtpNode_new(addr, Keypair_generate(1, 0))
    /\ znode_inbox = <<>>
    /\ znode_sent = {}
    /\ znode_ret = znode_call("new", <<>>, znode, {}, Ok(<<>>))

ZhtpNodeInit == ZhtpNodeInitAt(SelfV4)

\* The listen loop, lines 421-426: a datagram is received and processed;
\* the value process_packet returns is dropped.
ProcessPacket ==
    /\ \E packet \in PacketInputs :
       \E out \in ZhtpNode_process_packet(znode, packet, key_now) :
          /\ znode' = out.node
          /\ znode_sent' = znode_sent \cup out.sent
          /\ znode_ret' = znode_call("process_packet", packet, znode, out.sent,
                                   out.result)
    /\ UNCHANGED znode_inbox
    /\ UNCHANGED except_znode

Connect ==
    /\ \E peer \in {PeerAddr, OtherV6} :
       \E out \in ZhtpNode_connect(znode, peer, key_now) :
          /\ znode' = out.node
          /\ znode_sent' = znode_sent \cup out.sent
          /\ znode_ret' = znode_call("connect", peer, znode, out.sent, out.result)
    /\ UNCHANGED znode_inbox
    /\ UNCHANGED except_znode

\* The receiving end of the channel is kept by the application; the sender
\* is handed to the node.
SetMessageHandler ==
    /\ znode' = set_message_handler(znode, "inbound")
    /\ znode_ret' = znode_call("set_message_handler", "inbound", znode, {},
                            Ok(<<>>))
    /\ UNCHANGED <<znode_inbox, znode_sent>>
    /\ UNCHANGED except_znode

ForceImmediateRotation ==
    /\ znode' = force_immediate_rotation(znode)
    /\ znode_ret' = znode_call("force_immediate_rotation", <<>>, znode, {},
                            Ok(<<>>))
    /\ UNCHANGED <<znode_inbox, znode_sent>>
    /\ UNCHANGED except_znode

-----------------------------------------------------------------------------
(* The unified proof: UnifiedCircuit, verify_unified_proof
   (src/src/zhtp/zk_proofs.rs) *)

\* Field elements (Fr) are natural numbers; the curve point k * generator is
\* the number k, so that sums of points and scalar multiples are sums and
\* products of numbers.
Fr_zero == 0
Fr_one == 1
G1_generator == 1

\* a sum and a product over a sequence of numbers
RECURSIVE seq_sum(_)
seq_sum(s) == IF s = <<>> THEN 0 ELSE Head(s) + seq_sum(Tail(s))
RECURSIVE seq_product(_)
seq_product(s) == IF s = <<>> THEN 1 ELSE Head(s) * seq_product(Tail(s))

\* the elements of a sequence
Range(s) == {s[i] : i \in DOMAIN s}

\* UnifiedCircuit::hash_to_field, lines 653-683: SHA-256 under a domain
\* separator, reduced into the field and never zero.  The digest is a
\* checksum that tells apart the byte strings of the model.
RECURSIVE digest(_, _)
digest(bytes, acc) ==
    IF bytes = <<>> THEN acc
    ELSE digest(Tail(bytes), (acc * 31 + Head(bytes) + 1) % 65521)
hash_to_field(bytes) ==
    LET num == 65536 + digest(bytes, 7)
    IN  IF num = Fr_zero THEN Fr_one ELSE num

\* UnifiedCircuit::compute_merkle_node, lines 363-372: the 32 bytes of the
\* SHA-256 digest of left || right, here a mix of the two that tells apart
\* the pairs of the model.
compute_merkle_node(left, right) ==
    [i \in 1..32 |-> (3 * left[i] + 5 * right[i] + i) % 256]

\* usize::next_power_of_two
RECURSIVE power_of_two_from(_, _)
power_of_two_from(p, n) == IF p >= n THEN p ELSE power_of_two_from(2 * p, n)
next_power_of_two(n) == power_of_two_from(1, n)

\* UnifiedCircuit::new, lines 213-252.  The polynomials, which generate_proof
\* fills in and nothing reads afterwards, are not fields of the model.
UnifiedCircuit_new(source, destination, path, routing_table, stored_data_root, storage_proof, space_commitment, bandwidth_used, uptime_records, latency_measurements) ==
    [source_node |-> source, destination_node |-> destination,
     route_path |-> path, routing_table |-> routing_table,
     stored_data_root |-> stored_data_root,
     storage_merkle_proof |-> storage_proof,
     space_commitment |-> space_commitment,
     bandwidth_used |-> bandwidth_used, uptime_records |-> uptime_records,
     latency_measurements |-> latency_measurements,
     domain_size |-> next_power_of_two(Len(path) + Len(storage_proof)
                        + Len(uptime_records) + Len(latency_measurements))]

\* A plausible slip: a node without an entry allows every next hop.
hop_allowed_unlisted(c, current, next) ==
    current \notin DOMAIN c.routing_table
    \/ next \in Range(c.routing_table[current])

\* lines 290-292 and 508-509: the hop is one of the table's next hops
hop_allowed(c, current, next) ==
    /\ current \in DOMAIN c.routing_table
    /\ next \in Range(c.routing_table[current])

\* UnifiedCircuit::add_routing_constraints, lines 273-316: the node hashes,
\* then one flag per hop, zero from the first invalid hop on.
add_routing_constraints(c) ==
    LET path == c.route_path
        valid_to(i) == \A j \in 1..i : hop_allowed(c, path[j], path[j + 1])
    IN  [i \in 1..Len(path) |-> hash_to_field(path[i])]
        \o [i \in 1..(Len(path) - 1) |->
               IF valid_to(i) THEN Fr_one ELSE Fr_zero]

\* UnifiedCircuit::compute_space_commitment, lines 354-360
compute_space_commitment(c) == 131072 + c.space_commitment

\* A plausible slip: the space commitment is not added.
RECURSIVE merkle_pairs(_, _, _)
merkle_pairs(c, current, nodes) ==
    IF nodes = <<>> THEN <<>>
    ELSE <<hash_to_field(current), hash_to_field(Head(nodes))>>
         \o merkle_pairs(c, compute_merkle_node(current, Head(nodes)),
                         Tail(nodes))
add_storage_constraints_no_commitment(c) ==
    merkle_pairs(c, c.stored_data_root, c.storage_merkle_proof)

\* UnifiedCircuit::add_storage_constraints, lines 319-351
add_storage_constraints(c) ==
    merkle_pairs(c, c.stored_data_root, c.storage_merkle_proof)
    \o <<compute_space_commitment(c)>>

\* f64::to_bits on a latency in milliseconds
to_bits(latency) == 65536 * latency

\* sort_by_key(|(ts, _)| *ts), a stable sort
RECURSIVE sort_by_key(_)
sort_by_key(records) ==
    IF records = <<>> THEN <<>>
    ELSE LET first == CHOOSE i \in DOMAIN records :
                        \A j \in DOMAIN records :
                            \/ records[i][1] < records[j][1]
                            \/ records[i][1] = records[j][1] /\ i <= j
             rest == [k \in 1..(Len(records) - 1) |->
                         IF k < first THEN records[k] ELSE records[k + 1]]
         IN  <<records[first]>> \o sort_by_key(rest)

\* the timestamps and the values of the records, in turn
RECURSIVE flatten_records(_)
flatten_records(records) ==
    IF records = <<>> THEN <<>>
    ELSE <<Head(records)[1], Head(records)[2]>>
         \o flatten_records(Tail(records))

\* UnifiedCircuit::add_metrics_constraints, lines 383-417
add_metrics_constraints(c) ==
    LET uptime == sort_by_key(c.uptime_records)
        latency == sort_by_key(c.latency_measurements)
    IN  flatten_records([i \in DOMAIN uptime |->
                <<uptime[i][1], IF uptime[i][2] THEN 1 ELSE 0>>])
        \o flatten_records([i \in DOMAIN latency |->
                <<latency[i][1], to_bits(latency[i][2])>>])

\* UnifiedCircuit::commitment_counts, lines 444-469
commitment_counts(c) ==
    LET base_count == 5
        routing_count ==
            IF c.route_path = <<>> THEN 0
            ELSE Len(c.route_path)
                 + (IF Len(c.route_path) > 1 THEN Len(c.route_path) - 1 ELSE 0)
        storage_count ==
            IF c.storage_merkle_proof = <<>> THEN 1
            ELSE Len(c.storage_merkle_proof) * 2 + 1
        metrics_count ==
            Len(c.uptime_records) * 2 + Len(c.latency_measurements) * 2
    IN  <<base_count, routing_count + storage_count, metrics_count>>

\* UnifiedCircuit::values_to_polynomials, lines 614-626: the value is the
\* constant coefficient
values_to_polynomials(c, values) ==
    [i \in DOMAIN values |->
        [k \in 1..c.domain_size |-> IF k = 1 THEN values[i] ELSE Fr_zero]]

\* evaluate_polynomial, lines 687-697
RECURSIVE evaluate_from(_, _, _)
evaluate_from(coeffs, point, power) ==
    IF coeffs = <<>> THEN Fr_zero
    ELSE Head(coeffs) * power + evaluate_from(Tail(coeffs), point, power * point)
evaluate_polynomial(poly, point) == evaluate_from(poly, point, Fr_one)

\* UnifiedCircuit::commit_polynomial, lines 629-650: the powers of the
\* secret 2 times the generator, weighted by the coefficients
commit_polynomial(poly) == evaluate_from(poly, 2, G1_generator)

\* the first hop of the path that the routing table does not allow, or 0
RECURSIVE first_invalid_hop(_, _)
first_invalid_hop(c, i) ==
    IF i > Len(c.route_path) - 1 THEN 0
    ELSE IF ~hop_allowed(c, c.route_path[i], c.route_path[i + 1]) THEN i
    ELSE first_invalid_hop(c, i + 1)

\* UnifiedCircuit::generate_proof, lines 500-610
generate_proof(c) ==
    IF c.route_path # <<>> /\ first_invalid_hop(c, 1) # 0 THEN None
    ELSE LET base_values == <<hash_to_field(c.source_node),
                              hash_to_field(c.destination_node),
                              hash_to_field(c.stored_data_root),
                              c.bandwidth_used,
                              Len(c.uptime_records)>>
             wire_values == base_values \o add_routing_constraints(c)
                            \o add_storage_constraints(c)
                            \o add_metrics_constraints(c)
             wire_polynomials == values_to_polynomials(c, wire_values)
             challenge_point == 2
         IN  Some([path_commitments |->
                      [i \in DOMAIN wire_polynomials |->
                          commit_polynomial(wire_polynomials[i])],
                   proof_elements |->
                      [i \in DOMAIN wire_polynomials |->
                          evaluate_polynomial(wire_polynomials[i],
                                              challenge_point)],
                   public_inputs |-> wire_values])

\* validate_proof_structure, lines 700-715
validate_proof_structure(proof) ==
    /\ Len(proof.path_commitments) = Len(proof.proof_elements)
    /\ Len(proof.path_commitments) = Len(proof.public_inputs)
    /\ Len(proof.public_inputs) >= 5

\* A plausible slip: every root is taken for the view-change root.
is_view_change_always(stored_data_root) == TRUE

\* line 751
is_view_change(stored_data_root) == stored_data_root = zeros(32)

\* lines 811-845: the destination hash is among the hops found by expanding
\* the reachable set from the source hash
RECURSIVE found_path(_, _, _)
found_path(route_hashes, reachable, dest_hash) ==
    LET hops == UNION {Range(route_hashes[n]) :
                          n \in reachable \cap DOMAIN route_hashes}
    IN  IF dest_hash \in hops THEN TRUE
        ELSE IF hops \subseteq reachable THEN FALSE
        ELSE found_path(route_hashes, reachable \cup hops, dest_hash)

\* lines 781-916: the checks of the routing part of a proof
routing_checks(proof, circuit, source, destination, constraint_count) ==
    LET table == circuit.routing_table
        route_hashes ==
            [h \in {hash_to_field(n) : n \in DOMAIN table} |->
                LET from == CHOOSE n \in DOMAIN table : hash_to_field(n) = h
                IN  [k \in DOMAIN table[from] |-> hash_to_field(table[from][k])]]
        source_hash == hash_to_field(source)
        dest_hash == hash_to_field(destination)
        elements == proof.proof_elements
        \* the pairs at the offsets 5, 7, ... of the elements (lines 850-856)
        pairs == {k \in 0..Len(elements) :
                     /\ 5 + 2 * k + 1 < Len(elements)
                     /\ 5 + 2 * k < 5 + constraint_count * 2}
        path_nodes == [k \in 1..Cardinality(pairs) |-> elements[5 + 2 * (k - 1) + 1]]
        path_valid == [k \in 1..Cardinality(pairs) |-> elements[5 + 2 * (k - 1) + 2]]
        position(x) == CHOOSE k \in DOMAIN path_nodes :
                          /\ path_nodes[k] = x
                          /\ \A j \in 1..(k - 1) : path_nodes[j] # x
        hop_valid(k) ==
            /\ path_nodes[k] \in DOMAIN route_hashes
            /\ path_nodes[k + 1] \in Range(route_hashes[path_nodes[k]])
        combined_valid ==
            seq_product([k \in 1..(Len(path_nodes) - 1) |->
                            path_valid[position(path_nodes[k])]])
    IN  /\ source \in DOMAIN table
        /\ found_path(route_hashes, {source_hash}, dest_hash)
        /\ path_nodes # <<>>
        /\ path_nodes[1] = source_hash
        /\ path_nodes[Len(path_nodes)] = dest_hash
        /\ \A k \in 1..(Len(path_nodes) - 1) : hop_valid(k)
        /\ combined_valid = Fr_one
        /\ G1_generator * seq_sum(proof.proof_elements)
              = seq_sum(proof.path_commitments)
        /\ proof.proof_elements = proof.public_inputs

\* verify_unified_proof, lines 718-920
verify_unified_proof(proof, source, destination, stored_data_root) ==
    IF ~validate_proof_structure(proof) THEN FALSE
    ELSE LET routing_table == map_insert(EmptyMap, source, <<destination>>)
             circuit == UnifiedCircuit_new(source, destination, <<>>,
                            routing_table, stored_data_root, <<>>,
                            G1_generator, 0, <<>>, <<>>)
             constraint_count == commitment_counts(circuit)[2]
             base_checks ==
                 IF is_view_change(stored_data_root)
                 THEN <<<<proof.public_inputs[1], hash_to_field(source)>>,
                        <<proof.public_inputs[2], hash_to_field(destination)>>>>
                 ELSE <<<<proof.public_inputs[1], hash_to_field(source)>>,
                        <<proof.public_inputs[2], hash_to_field(destination)>>,
                        <<proof.public_inputs[3],
                          hash_to_field(stored_data_root)>>>>
         IN  IF \E k \in DOMAIN base_checks : base_checks[k][1] # base_checks[k][2]
             THEN FALSE
             ELSE IF source # <<>> /\ destination # <<>> /\ constraint_count > 1
                  THEN routing_checks(proof, circuit, source, destination,
                                      constraint_count)
                  ELSE TRUE

\* The circuits of the model: the nodes, the routing table and the data of
\* the tests (lines 1088-1290), with every path of at most MaxPath nodes.
source_id == <<1, 2, 3>>
destination_id == <<4, 5, 6>>
mid_hop == <<7, 8, 9>>
unknown_hop == <<9, 9, 9>>
PathNodes == {source_id, destination_id, mid_hop, unknown_hop}
RoutePaths == UNION {[1..n -> PathNodes] : n \in 0..MaxPath}
test_routing_table ==
    map_insert(map_insert(EmptyMap, source_id, <<mid_hop>>),
               mid_hop, <<destination_id>>)
\* create_test_data, lines 986-996, and create_test_metrics, lines 998-1011
\* (timestamps counted from 1234567890)
test_data_root == <<1>> \o zeros(31)
test_merkle_proof == [i \in 1..3 |-> <<i - 1>> \o zeros(31)]
wrong_root == [i \in 1..32 |-> 2]
test_uptime == <<<<0, TRUE>>, <<1, TRUE>>, <<2, FALSE>>>>
test_latency == <<<<0, 50>>, <<1, 55>>, <<2, 45>>>>
CircuitData ==
    {[root |-> zeros(32), merkle |-> <<>>, bandwidth |-> 0,
      uptime |-> <<>>, latency |-> <<>>],
     [root |-> test_data_root, merkle |-> <<>>, bandwidth |-> 0,
      uptime |-> <<>>, latency |-> <<>>],
     [root |-> test_data_root, merkle |-> test_merkle_proof,
      bandwidth |-> 1024 * 1024, uptime |-> test_uptime,
      latency |-> test_latency]}
CircuitInputs ==
    {UnifiedCircuit_new(source_id, destination_id, path, table, d.root,
                        d.merkle, G1_generator, d.bandwidth, d.uptime,
                        d.latency) :
        path \in RoutePaths, table \in {test_routing_table, EmptyMap},
        d \in CircuitData}

\* the proof with the wire value at position i replaced by another value
tamper(proof, i) ==
    [proof EXCEPT !.public_inputs[i] = @ + 1, !.proof_elements[i] = @ + 1]

zk_call(op, arg, result) == [op |-> op, arg |-> arg, result |-> result]

ProofInitAt(circuit) ==
    /\ zk_circuit = circuit
    /\ zk_proof = None
    /\ zk_ret = zk_call("new", <<>>, <<>>)

\* the circuit of test_invalid_proof, test 1
ProofInit ==
    ProofInitAt(UnifiedCircuit_new(source_id, destination_id,
                    <<source_id, mid_hop, destination_id>>,
                    test_routing_table, zeros(32), <<>>, G1_generator, 0,
                    <<>>, <<>>))

GenerateProof ==
    /\ zk_proof' = generate_proof(zk_circuit)
    /\ zk_ret' = zk_call("generate_proof", <<>>, zk_proof')
    /\ UNCHANGED zk_circuit
    /\ UNCHANGED except_zk

\* The calls of verify_unified_proof made on a proof of a circuit: the proof
\* with other sources, destinations and roots, and the proof with one wire
\* value replaced (tampered = its position, 0 for none) with the circuit's
\* own source and destination.
VerifyInputs(proof, circuit) ==
    {[proof |-> proof, tampered |-> 0, source |-> source,
      destination |-> destination, stored_data_root |-> root] :
        source \in {source_id, mid_hop},
        destination \in {destination_id, mid_hop},
        root \in {circuit.stored_data_root, zeros(32), wrong_root}}
    \cup
    {[proof |-> tamper(proof, i), tampered |-> i,
      source |-> circuit.source_node,
      destination |-> circuit.destination_node, stored_data_root |-> root] :
        i \in DOMAIN proof.public_inputs,
        root \in {circuit.stored_data_root, zeros(32)}}

VerifyUnifiedProof ==
    /\ zk_proof # None
    /\ \E in \in VerifyInputs(zk_proof[1], zk_circuit) :
          zk_ret' = zk_call("verify_unified_proof", in,
                        verify_unified_proof(in.proof, in.source,
                            in.destination, in.stored_data_root))
    /\ UNCHANGED <<zk_circuit, zk_proof>>
    /\ UNCHANGED except_zk

-----------------------------------------------------------------------------
(* The locks of the content registry: ContentAddressing
   (src/src/storage/content.rs) *)

\* ContentAddressing::new, lines 96-105: one RwLock for each container.
RegistryLocks ==
    {"content_map", "type_index", "size_index", "tag_index", "services",
     "access_counts"}

\* The tasks that call the registry.
Tasks == 1..MaxTasks

\* An RwLock is held by one writer or by any number of readers.
RwLock_new == [writer |-> None, readers |-> {}]
can_acquire(lock, mode) ==
    IF mode = "write" THEN lock.writer = None /\ lock.readers = {}
    ELSE lock.writer = None
acquire(lock, mode, task) ==
    IF mode = "write" THEN [lock EXCEPT !.writer = Some(task)]
    ELSE [lock EXCEPT !.readers = @ \cup {task}]
release(lock, task) ==
    [writer |-> IF lock.writer = Some(task) THEN None ELSE lock.writer,
     readers |-> lock.readers \ {task}]

\* the steps of an operation that touch a lock: `.write().await` and
\* `.read().await` acquire, the end of a block drops the guard
write(lock) == [step |-> "acquire", lock |-> lock, mode |-> "write"]
read(lock) == [step |-> "acquire", lock |-> lock, mode |-> "read"]
drop(lock) == [step |-> "drop", lock |-> lock, mode |-> "none"]

\* The lock steps of each operation, in program order; the guards still
\* held are dropped when the operation returns.  `known` tells whether
\* register_content finds its content id in the map (line 126).
lock_steps(op, known) ==
    IF op = "register_content"                            \* lines 121-124, 150
    THEN <<write("content_map"), write("type_index"), write("size_index"),
           write("access_counts")>>
         \o (IF known THEN <<>> ELSE <<write("tag_index")>>)
    ELSE IF op = "find_content"                           \* lines 171-179
    THEN <<write("access_counts"), drop("access_counts"), read("content_map")>>
    ELSE IF op = "verify_content"                         \* line 194
    THEN <<write("content_map")>>
    ELSE IF op = "search_content_by_size"                 \* lines 223-224
    THEN <<read("size_index"), read("content_map")>>
    ELSE IF op = "get_popular_content"                    \* lines 266-267
    THEN <<read("access_counts"), read("content_map")>>
    ELSE IF op = "register_service"                       \* line 251
    THEN <<write("services")>>
    ELSE IF op = "list_services"                          \* line 261
    THEN <<read("services")>>
    \* get_content_locations, search_content_by_type, search_content_by_tag:
    \* lines 184-186, 212, 237
    ELSE <<read("content_map")>>

RegistryOperations ==
    {"register_content", "find_content", "get_content_locations",
     "verify_content", "search_content_by_type", "search_content_by_size",
     "search_content_by_tag", "register_service", "list_services",
     "get_popular_content"}

\* the content ids register_content is called with
LockContentIds == {"c1"}

idle_task == [op |-> "idle", id |-> "", pc |-> 0]

\* the steps of a task, and the step it is at
steps_of(task) == lock_steps(task.op, task.id \in reg_known)
next_step(task) == steps_of(task)[task.pc]
running(task) == task.op # "idle"
returning(task) == running(task) /\ task.pc > Len(steps_of(task))

\* the locks a task holds
held_by(t) ==
    {l \in RegistryLocks :
        reg_locks[l].writer = Some(t) \/ t \in reg_locks[l].readers}

\* the task is at an await on a lock
awaits_lock(t) ==
    /\ running(reg_tasks[t]) /\ ~returning(reg_tasks[t])
    /\ next_step(reg_tasks[t]).step = "acquire"

LocksInit ==
    /\ reg_locks = [l \in RegistryLocks |-> RwLock_new]
    /\ reg_tasks = [t \in Tasks |-> idle_task]
    /\ reg_known = {}

\* A task calls an operation.
CallOperation ==
    /\ \E t \in Tasks, op \in RegistryOperations, id \in LockContentIds :
          /\ ~running(reg_tasks[t])
          /\ reg_tasks' = [reg_tasks EXCEPT ![t] = [op |-> op, id |-> id, pc |-> 1]]
    /\ UNCHANGED <<reg_locks, reg_known>>
    /\ UNCHANGED except_locks

\* The await of a task on a lock completes.
AcquireLock ==
    /\ \E t \in Tasks :
          /\ awaits_lock(t)
          /\ LET s == next_step(reg_tasks[t])
             IN  /\ can_acquire(reg_locks[s.lock], s.mode)
                 /\ reg_locks' = [reg_locks EXCEPT
                                     ![s.lock] = acquire(@, s.mode, t)]
          /\ reg_tasks' = [reg_tasks EXCEPT ![t].pc = @ + 1]
    /\ UNCHANGED reg_known
    /\ UNCHANGED except_locks

\* A guard goes out of scope inside the operation.
DropGuard ==
    /\ \E t \in Tasks :
          /\ running(reg_tasks[t]) /\ ~returning(reg_tasks[t])
          /\ next_step(reg_tasks[t]).step = "drop"
          /\ reg_locks' = [reg_locks EXCEPT
                              ![next_step(reg_tasks[t]).lock] = release(@, t)]
          /\ reg_tasks' = [reg_tasks EXCEPT ![t].pc = @ + 1]
    /\ UNCHANGED reg_known
    /\ UNCHANGED except_locks

\* The operation returns: its guards are dropped, and register_content has
\* put its content id into the map.
ReturnOperation ==
    /\ \E t \in Tasks :
          /\ returning(reg_tasks[t])
          /\ reg_locks' = [l \in RegistryLocks |-> release(reg_locks[l], t)]
          /\ reg_known' = IF reg_tasks[t].op = "register_content"
                          THEN reg_known \cup {reg_tasks[t].id}
                          ELSE reg_known
          /\ reg_tasks' = [reg_tasks EXCEPT ![t] = idle_task]
    /\ UNCHANGED except_locks

-----------------------------------------------------------------------------
(* The cross-chain bridge: StateVerifier, ChainAdapter
   (src/src/zhtp/bridge/mod.rs) *)

\* StateVerifier::new, lines 55-61
StateVerifier_new(chain_id) ==
    [chain_id |-> chain_id, state_root |-> zeros(32),
     verified_states |-> EmptyMap]

\* StateVerifier::verify_state, lines 63-67: records the root and returns
\* true
verify_state(verifier, chain_id, state_root) ==
    [verifier EXCEPT !.verified_states = map_insert(@, chain_id, state_root)]

\* StateVerifier::get_verified_state, lines 69-72
get_verified_state(verifier, chain_id) ==
    IF chain_id \in DOMAIN verifier.verified_states
    THEN Some(verifier.verified_states[chain_id])
    ELSE None

\* WasmRuntime::new and WasmRuntime::deploy (zhtp/contracts.rs, not among the
\* sources): an opaque bytecode runtime; here it is the set of the bytecode
\* it was given, and it refuses the empty one.
WasmRuntime_new == {}
WasmRuntime_deploy(runtime, bytecode) ==
    IF bytecode = <<>> THEN Err("Invalid bytecode")
    ELSE Ok(runtime \cup {bytecode})

\* ChainAdapter::new, lines 140-147
ChainAdapter_new(chain_id) ==
    [chain_id |-> chain_id, runtime |-> WasmRuntime_new,
     verifier |-> StateVerifier_new(chain_id), message_queue |-> <<>>]

\* ChainAdapter::queue_message, lines 149-153
queue_message(adapter, message) ==
    [adapter EXCEPT !.message_queue = Append(@, message)]

\* the bytes of a proof that RoutingProof::try_from refuses
malformed_proof == [commitments |-> <<<<0>>>>, elements |-> <<>>, inputs |-> <<>>]
empty_proof == [commitments |-> <<>>, elements |-> <<>>, inputs |-> <<>>]

\* CrossChainMessage::to_processing_message, lines 118-132: a message without
\* a proof comes back with the empty proof
to_processing_message(message) ==
    IF message.proof = Some(malformed_proof) THEN Err("SerializationError")
    ELSE Ok([message EXCEPT !.proof =
                IF message.proof = None THEN Some(empty_proof) ELSE @])

\* lines 173-178: the message is refused when a verified state of its source
\* chain is known and differs from its state hash
state_refused(verifier, message) ==
    LET source_state == get_verified_state(verifier, message.source_chain)
    IN  source_state # None /\ source_state[1] # message.state_hash

\* the body of the loop of process_messages for one message, lines 160-186:
\* the runtime and the processed messages after it
process_message(adapter, state, message) ==
    LET m == to_processing_message(message)
        deployed == WasmRuntime_deploy(state.runtime, m.value.payload)
    IN  IF ~m.ok THEN state
        ELSE IF m.value.target_chain # adapter.chain_id THEN state
        ELSE IF state_refused(adapter.verifier, m.value) THEN state
        ELSE IF ~deployed.ok THEN state
        ELSE [runtime |-> deployed.value,
              processed |-> Append(state.processed, m.value)]

\* the loop, lines 159-187: queue.pop() takes the last message first
RECURSIVE process_from(_, _, _)
process_from(adapter, state, queue) ==
    IF queue = <<>> THEN state
    ELSE process_from(adapter,
                      process_message(adapter, state, queue[Len(queue)]),
                      SubSeq(queue, 1, Len(queue) - 1))

\* ChainAdapter::process_messages, lines 155-190: the adapter after the call
\* and the messages returned
ChainAdapter_process_messages(adapter) ==
    LET end == process_from(adapter,
                   [runtime |-> adapter.runtime, processed |-> <<>>],
                   adapter.message_queue)
    IN  [adapter |-> [adapter EXCEPT !.runtime = end.runtime,
                                     !.message_queue = <<>>],
         processed |-> end.processed]

\* CrossChainMessage, lines 21-39, and the messages of the model: those of
\* test_state_verification (tests/bridge_integration_test.rs:78-86) with
\* either state, for this chain and for another, and two that fail on the
\* way
CrossChainMessage(source_chain, target_chain, nonce, payload, proof, state_hash) ==
    [source_chain |-> source_chain, target_chain |-> target_chain,
     nonce |-> nonce, payload |-> payload, proof |-> proof,
     state_hash |-> state_hash]
StateRoots == {[i \in 1..32 |-> 1], zeros(32)}
MessageInputs ==
    {CrossChainMessage("chain1", target, 1, <<1, 2, 3>>, None, state) :
        target \in {"chain2", "chain3"}, state \in StateRoots}
    \cup {CrossChainMessage("chain1", "chain2", 1, <<>>, None, zeros(32)),
          CrossChainMessage("chain1", "chain2", 1, <<1, 2, 3>>,
                            Some(malformed_proof), zeros(32))}

BridgeInit ==
    /\ bridge = ChainAdapter_new("chain2")
    /\ bridge_ret = [op |-> "new", processed |-> <<>>]

QueueMessage ==
    /\ Len(bridge.message_queue) < MaxQueue
    /\ \E message \in MessageInputs : bridge' = queue_message(bridge, message)
    /\ bridge_ret' = [op |-> "queue_message", processed |-> <<>>]
    /\ UNCHANGED except_bridge

VerifyState ==
    /\ \E state_root \in StateRoots :
          bridge' = [bridge EXCEPT
                        !.verifier = verify_state(@, "chain1", state_root)]
    /\ bridge_ret' = [op |-> "verify_state", processed |-> <<>>]
    /\ UNCHANGED except_bridge

AdapterProcessMessages ==
    /\ bridge' = ChainAdapter_process_messages(bridge).adapter
    /\ bridge_ret' = [op |-> "process_messages",
                      processed |-> ChainAdapter_process_messages(bridge).processed]
    /\ UNCHANGED except_bridge

-----------------------------------------------------------------------------
(* The tasks of two listening nodes: connect, the receive task and the
   processing loop of start_listening_shared, and the key rotation task
   (src/src/zhtp/mod.rs, src/tests/integration_test.rs) *)

\* node1 and node2 of setup_test_network: node1 calls connect(node2_addr).
node1_addr == SelfV4
node2_addr == PeerAddr
TaskNodes == {node1_addr, node2_addr}

\* A datagram in a socket's receive buffer: the packet and the address
\* recv_from reports as its source.
datagram(packet, src) == [packet |-> packet, src |-> src]

\* send_to: the datagrams are appended to the buffers of their destinations.
deliver(sockets, sent, src) ==
    [n \in DOMAIN sockets |->
        LET RECURSIVE add(_, _)
            add(buf, rest) ==
                IF rest = {} THEN buf
                ELSE LET d == CHOOSE x \in rest : TRUE
                     IN  add(IF d.to = n THEN Append(buf, datagram(d.packet, src))
                             ELSE buf, rest \ {d})
        IN  add(sockets[n], sent)]

\* ZhtpNode::connect up to its receive, lines 251-266: the outcomes of
\* create_packet and of send_to.  A result that is ok means the call goes
\* on to wait for a datagram.
connect_send(node, peer, now) ==
    LET packet == ZhtpNode_create_packet(node, peer, ZHTP_HANDSHAKE, 0, now)
    IN  IF ~packet.ok
        THEN {[node |-> node, sent |-> {}, result |-> packet]}
        ELSE {[node |-> node, sent |-> {}, result |-> Err("send_to failed")],
              [node |-> with_connection(node, peer),
               sent |-> {[packet |-> packet.value, to |-> peer]},
               result |-> Ok(<<>>)]}

\* lines 272-279: the datagram recv_from handed to connect.
connect_received(src, peer) ==
    IF src = peer THEN Ok(<<>>)
    ELSE Err("Received response from wrong peer")

\* A plausible slip: the new keypair is generated and dropped.
rotate_keys_dropped(node, seed, now) == node

\* ZhtpNode::rotate_keys, lines 299-305; seed names the key material
\* Keypair::rotate samples.
rotate_keys(node, seed, now) ==
    IF get_status(node.keypair, now).needs_rotation
    THEN [node EXCEPT !.keypair = Keypair_generate(seed, now)]
    ELSE node

\* const of init_key_rotation, line 386: seconds between two ticks.
ROTATION_CHECK_INTERVAL == 300

\* The guard of the node's Mutex is held by the caller of connect for the
\* whole call (integration_test.rs:99-100).
node_locked(n) == n = node1_addr /\ task_connect.pc = "waiting"

\* The value a call returned, with what the model remembers of the call.
task_call(op, before, result) ==
    [op |-> op, before |-> before, now |-> task_now,
     answered |-> task_connect.answered, result |-> result]

TasksInit ==
    /\ task_nodes = [n \in TaskNodes |->
                        ZhtpNode_new(n, Keypair_generate(
                            IF n = node1_addr THEN 1 ELSE 2, 0))]
    /\ task_sockets = [n \in TaskNodes |-> <<>>]
    /\ task_channels = [n \in TaskNodes |-> <<>>]
    /\ task_connect = [pc |-> "idle", peer |-> node2_addr, answered |-> FALSE]
    /\ task_now = 0
    /\ task_calls = [connect |-> 0, force |-> 0, clock |-> 0]
    /\ task_ret = [op |-> "new", before |-> <<>>, now |-> 0,
                   answered |-> FALSE, result |-> Ok(<<>>)]

\* node1.lock().await.connect(node2_addr), up to the receive.
ConnectCall ==
    /\ task_connect.pc = "idle"
    /\ task_calls.connect < MaxConnects
    /\ \E out \in connect_send(task_nodes[node1_addr], node2_addr, task_now) :
        /\ task_nodes' = [task_nodes EXCEPT ![node1_addr] = out.node]
        /\ task_sockets' = deliver(task_sockets, out.sent, node1_addr)
        /\ IF out.result.ok
           THEN /\ task_connect' = [pc |-> "waiting", peer |-> node2_addr,
                                    answered |-> FALSE]
                /\ UNCHANGED task_ret
           ELSE /\ task_connect' = [task_connect EXCEPT !.answered = FALSE]
                /\ task_ret' = [task_call("connect", task_nodes[node1_addr],
                                          out.result) EXCEPT !.answered = FALSE]
    /\ task_calls' = [task_calls EXCEPT !.connect = @ + 1]
    /\ UNCHANGED <<task_channels, task_now>>
    /\ UNCHANGED except_tasks

\* self.socket.recv_from of connect (line 270) returns the next datagram of
\* the socket.
ConnectReceive ==
    /\ task_connect.pc = "waiting"
    /\ task_sockets[node1_addr] # <<>>
    /\ task_sockets' = [task_sockets EXCEPT ![node1_addr] = Tail(@)]
    /\ task_ret' = task_call("connect", task_nodes[node1_addr],
                             connect_received(Head(task_sockets[node1_addr]).src,
                                              task_connect.peer))
    /\ task_connect' = [task_connect EXCEPT !.pc = "idle"]
    /\ UNCHANGED <<task_nodes, task_channels, task_now, task_calls>>
    /\ UNCHANGED except_tasks

\* The 5 s pass with no datagram handed to connect (lines 284-287).
ConnectTimeout ==
    /\ task_connect.pc = "waiting"
    /\ task_sockets[node1_addr] = <<>>
    /\ task_ret' = task_call("connect", task_nodes[node1_addr],
                             Err("Connection timeout"))
    /\ task_connect' = [task_connect EXCEPT !.pc = "idle"]
    /\ UNCHANGED <<task_nodes, task_sockets, task_channels, task_now, task_calls>>
    /\ UNCHANGED except_tasks

\* The receive task of start_listening_shared, lines 402-419: the next
\* datagram of the socket is sent into the channel.  The task owns a clone
\* of the socket and takes no lock.
ListenReceive ==
    /\ \E n \in TaskNodes :
        /\ task_sockets[n] # <<>>
        /\ task_sockets' = [task_sockets EXCEPT ![n] = Tail(@)]
        /\ task_channels' = [task_channels EXCEPT
                                ![n] = Append(@, Head(task_sockets[n]))]
    /\ UNCHANGED <<task_nodes, task_connect, task_now, task_calls, task_ret>>
    /\ UNCHANGED except_tasks

\* The processing loop of start_listening_shared, lines 421-426: the next
\* packet of the channel is processed under the node's lock.
ListenProcess ==
    /\ \E n \in TaskNodes :
        /\ task_channels[n] # <<>>
        /\ ~node_locked(n)
        /\ \E out \in ZhtpNode_process_packet(task_nodes[n],
                        Head(task_channels[n]).packet, task_now) :
            /\ task_nodes' = [task_nodes EXCEPT ![n] = out.node]
            /\ task_sockets' = deliver(task_sockets, out.sent, n)
            /\ task_connect' =
                IF /\ task_connect.pc = "waiting"
                   /\ n = task_connect.peer
                   /\ \E d \in out.sent : d.to = node1_addr
                THEN [task_connect EXCEPT !.answered = TRUE]
                ELSE task_connect
        /\ task_channels' = [task_channels EXCEPT ![n] = Tail(@)]
    /\ UNCHANGED <<task_now, task_calls, task_ret>>
    /\ UNCHANGED except_tasks

\* One tick of init_key_rotation, lines 387-393, on node1.
RotationTick ==
    /\ ~node_locked(node1_addr)
    /\ task_nodes' = [task_nodes EXCEPT ![node1_addr] =
                        rotate_keys(@, @.keypair.public[2] + 10, task_now)]
    /\ task_ret' = task_call("rotate_keys", task_nodes[node1_addr], Ok(<<>>))
    /\ UNCHANGED <<task_sockets, task_channels, task_connect, task_now,
                   task_calls>>
    /\ UNCHANGED except_tasks

\* n1.force_immediate_rotation() (main.rs:509)
ForceRotation ==
    /\ ~node_locked(node1_addr)
    /\ task_calls.force < MaxForced
    /\ task_nodes' = [task_nodes EXCEPT ![node1_addr] =
                        force_immediate_rotation(@)]
    /\ task_calls' = [task_calls EXCEPT !.force = @ + 1]
    /\ task_ret' = task_call("force_immediate_rotation",
                             task_nodes[node1_addr], Ok(<<>>))
    /\ UNCHANGED <<task_sockets, task_channels, task_connect, task_now>>
    /\ UNCHANGED except_tasks

\* The system clock advances by the period of the rotation task or by the
\* lifetime of a key.
TaskClock ==
    /\ task_calls.clock < MaxClock
    /\ \E d \in {ROTATION_CHECK_INTERVAL, KEY_ROTATION_INTERVAL} :
        task_now' = task_now + d
    /\ task_calls' = [task_calls EXCEPT !.clock = @ + 1]
    /\ UNCHANGED <<task_nodes, task_sockets, task_channels, task_connect,
                   task_ret>>
    /\ UNCHANGED except_tasks

-----------------------------------------------------------------------------
(* Specifications *)

Init ==
    /\ LedgerInit /\ MetricsInit /\ ConsensusInit /\ ContentInit
       /\ TasksInit /\ BridgeInit /\ LocksInit /\ ProofInit /\ ZhtpNodeInit /\ KeyInit
    /\ NetworkInit
    /\ reward_in = [score |-> FP, good |-> good_metrics, poor |-> poor_metrics]

\* The ledger.
Next == AddTransaction \/ CreateBlock
Spec == Init /\ [][Next]_vars

\* One NetworkMetrics value.
MetricsNext == UpdateRoutingMetrics \/ UpdateFailedRouting \/ UpdateReputation
SpecMetrics == Init /\ [][MetricsNext]_vars

\* The validator registry.
ConsensusNext == RegisterNode \/ SelectLeader \/ UpdateMetrics \/ CalculateRewards
SpecConsensus == Init /\ [][ConsensusNext]_vars

\* Two validators rewarded on a fresh ledger, for every pair of metrics.
RewardNext == RewardGood \/ RewardPoor
RewardSpecInit ==
    LedgerInit /\ MetricsInit /\ ConsensusInit /\ ContentInit
       /\ TasksInit /\ BridgeInit /\ LocksInit /\ ProofInit /\ ZhtpNodeInit /\ KeyInit
    /\ NetworkInit /\ RewardInit
SpecReward == RewardSpecInit /\ [][RewardNext]_vars

\* The content registry.
ContentNext ==
    \/ RegisterContent \/ FindContentCount \/ FindContentRead
    \/ VerifyContent \/ SearchContentBySize \/ ContentTick
SpecContent == Init /\ [][ContentNext]_vars

\* One node's keypair.
KeyNext ==
    \/ KeyRotate \/ NeedsImmediateRotation \/ KeySign \/ KeyVerify
    \/ KeyEncapsulate \/ KeyDecapsulate \/ KeyTick
KeySpecInit ==
    /\ LedgerInit /\ MetricsInit /\ ConsensusInit /\ ContentInit
       /\ TasksInit /\ BridgeInit /\ LocksInit /\ ProofInit /\ ZhtpNodeInit
    /\ NetworkInit
    /\ reward_in = [score |-> FP, good |-> good_metrics, poor |-> poor_metrics]
    /\ \E now \in KeyStartTimes : KeyInitAt(now)
SpecKeys == KeySpecInit /\ [][KeyNext]_vars

\* Everything but the overlay network, as constructed.
RestInit ==
    /\ LedgerInit /\ MetricsInit /\ ConsensusInit /\ ContentInit
       /\ TasksInit /\ BridgeInit /\ LocksInit /\ ProofInit /\ ZhtpNodeInit /\ KeyInit
    /\ reward_in = [score |-> FP, good |-> good_metrics, poor |-> poor_metrics]

\* The overlay network of test_degraded_network.
NetworkNext ==
    \/ AddNode \/ SetNodeCondition \/ ConnectNodes \/ DisconnectNode
    \/ SendPacket \/ ProcessMessages
NetworkSpecInit == RestInit /\ NetworkInitAt(DiamondNetwork)
SpecNetwork == NetworkSpecInit /\ [][NetworkNext]_vars

\* A line of nodes longer than the hop limit.
HopsNext == LineSendPacket \/ ProcessMessages
HopsSpecInit == RestInit /\ NetworkInitAt(LineNetwork)
SpecHops == HopsSpecInit /\ [][HopsNext]_vars

\* The sending loop of test_degraded_network on its network.
TrackingNext == LoopSendPacket \/ ProcessMessages
SpecTracking == NetworkSpecInit /\ [][TrackingNext]_vars

\* A ZHTP node at an IPv4 or an IPv6 address, and the datagrams of a peer.
NodeNext ==
    \/ ProcessPacket \/ Connect \/ SetMessageHandler \/ ForceImmediateRotation
NodeSpecInit ==
    /\ LedgerInit /\ MetricsInit /\ ConsensusInit /\ ContentInit
       /\ TasksInit /\ BridgeInit /\ LocksInit /\ ProofInit /\ KeyInit
    /\ NetworkInit
    /\ reward_in = [score |-> FP, good |-> good_metrics, poor |-> poor_metrics]
    /\ \E addr \in {SelfV4, SelfV6} : ZhtpNodeInitAt(addr)
SpecNode == NodeSpecInit /\ [][NodeNext]_vars

\* The unified proofs of the circuits of the tests, over every short path.
ProofNext == GenerateProof \/ VerifyUnifiedProof
ProofSpecInit ==
    /\ LedgerInit /\ MetricsInit /\ ConsensusInit /\ ContentInit
       /\ TasksInit /\ BridgeInit /\ LocksInit /\ KeyInit
    /\ NetworkInit /\ ZhtpNodeInit
    /\ reward_in = [score |-> FP, good |-> good_metrics, poor |-> poor_metrics]
    /\ \E circuit \in CircuitInputs : ProofInitAt(circuit)
SpecProofs == ProofSpecInit /\ [][ProofNext]_vars

\* Tasks calling the operations of a content registry.
LocksNext == CallOperation \/ AcquireLock \/ DropGuard \/ ReturnOperation
SpecLocks == Init /\ [][LocksNext]_vars

\* The chain adapter of test_state_verification.
BridgeNext == QueueMessage \/ VerifyState \/ AdapterProcessMessages
SpecBridge == Init /\ [][BridgeNext]_vars

\* Two listening nodes, the first connecting to the second, and the key
\* rotation task of the first.
TasksNext ==
    \/ ConnectCall \/ ConnectReceive \/ ConnectTimeout
    \/ ListenReceive \/ ListenProcess
    \/ RotationTick \/ ForceRotation \/ TaskClock
SpecTasks == Init /\ [][TasksNext]_vars

\* The same tasks under their scheduling: the interval of the rotation task
\* fires for ever and tokio's Mutex hands the lock to its waiters in turn
\* (strong fairness of the tick); a connect call returns when a datagram
\* is there or the 5 s have passed (weak fairness of its two returns).
SpecRotation ==
    /\ Init /\ [][TasksNext]_vars
    /\ SF_vars(RotationTick)
    /\ WF_vars(ConnectReceive \/ ConnectTimeout)

-----------------------------------------------------------------------------
(* Ledger claims *)

LedgerAddresses == {"", "network", "genesis", "a", "b"}

\* The transactions add_transaction accepted, in acceptance order: those
\* sealed behind each block's reward transaction, then the pending pool.
accepted_transactions ==
    LET RECURSIVE sealed(_)
        sealed(i) == IF i > Len(chain) THEN <<>>
                     ELSE (IF chain[i].transactions = <<>> THEN <<>>
                           ELSE Tail(chain[i].transactions)) \o sealed(i + 1)
    IN  sealed(1) \o pending_transactions

accepted_from(sender) ==
    SelectSeq(accepted_transactions, LAMBDA tx : tx.from = sender)

\* C1: the accepted transactions of every sender carry the nonces 0, 1, 2, ...
\* in acceptance order, with no gap and no repeat.
C1_NonceMonotonicity ==
    \A sender \in LedgerAddresses :
        \A k \in 1..Len(accepted_from(sender)) :
            accepted_from(sender)[k].nonce = k - 1

\* C2: add_transaction returns false exactly when an endpoint is empty or a
\* sender other than "network" has a balance below the amount; otherwise it
\* returns true and the transaction is the new last element of the pending
\* pool; a rejected transaction leaves the pool as it was.
C2_AddTransactionResult ==
    [][ledger_ret'.op = "add_transaction" =>
        LET tx == ledger_ret'.tx
            rejected == \/ tx.from = ""
                        \/ tx.to = ""
                        \/ (tx.from # "network"
                            /\ get_balance(tx.from) < tx.amount)
            n == Len(pending_transactions')
        IN  /\ ledger_ret'.value = ~rejected
            /\ rejected => pending_transactions' = pending_transactions
            /\ ~rejected =>
                /\ n = Len(pending_transactions) + 1
                /\ SubSeq(pending_transactions', 1, n - 1) = pending_transactions
                /\ [pending_transactions'[n] EXCEPT !.nonce = 0]
                     = [tx EXCEPT !.nonce = 0]]_vars

\* C2 witness: a funded sender's transfer was accepted behind another
\* pending transaction.
C2_Witness ==
    /\ ledger_ret.op = "add_transaction"
    /\ ledger_ret.value
    /\ ledger_ret.tx.from = "a"
    /\ ledger_ret.tx.amount > 0
    /\ Len(pending_transactions) >= 2

chain_linked ==
    /\ chain[1].index = 0
    /\ chain[1].transactions = <<>>
    /\ chain[1].previous_hash = <<"0">>
    /\ chain[1].validator = "genesis"
    /\ \A i \in 2..Len(chain) :
        /\ chain[i].index = i - 1
        /\ chain[i].previous_hash = chain[i - 1].hash

blocks_kept ==
    /\ Len(chain') >= Len(chain)
    /\ \A i \in 1..Len(chain) : chain'[i] = chain[i]

\* C3: block 0 is the genesis block, every later block i has index i and the
\* hash of block i-1 as previous_hash, and no operation changes or removes a
\* block of the chain.
C3_ChainIntegrity == [](chain_linked) /\ [][blocks_kept]_vars

\* C3 witness: two blocks follow genesis, the second sealing a pending
\* transaction.
C3_Witness ==
    /\ Len(chain) = 3
    /\ Len(chain[3].transactions) >= 2

sealed_transactions ==
    LET RECURSIVE all(_)
        all(i) == IF i > Len(chain) THEN <<>>
                  ELSE chain[i].transactions \o all(i + 1)
    IN  all(1)

RECURSIVE sum_amounts(_)
sum_amounts(txs) ==
    IF txs = <<>> THEN 0 ELSE Head(txs).amount + sum_amounts(Tail(txs))

sealed_balance(a) ==
    sum_amounts(SelectSeq(sealed_transactions, LAMBDA tx : tx.to = a))
    - (IF a = "network" THEN 0
       ELSE sum_amounts(SelectSeq(sealed_transactions,
                                  LAMBDA tx : tx.from = a)))

\* C4: get_balance(a) is the sum of the amounts sent to a minus the sum of
\* the amounts sent from a (for a other than "network") over the
\* transactions of the blocks of the chain; the pending pool does not count.
C4_BalancesFromBlocks ==
    \A a \in LedgerAddresses : get_balance(a) = sealed_balance(a)

\* C4 witness: a transfer of a positive amount is sealed and another one is
\* pending.
C4_Witness ==
    /\ \E i \in 1..Len(sealed_transactions) :
        /\ sealed_transactions[i].from = "a"
        /\ sealed_transactions[i].amount > 0
    /\ \E i \in 1..Len(pending_transactions) :
        pending_transactions[i].amount > 0

-----------------------------------------------------------------------------
(* Metrics and consensus claims *)

\* C5: whatever updates are applied to a value made by NetworkMetrics::new,
\* its reputation_score stays within [0, 1].
C5_ReputationClamp ==
    /\ nm.reputation_score >= 0
    /\ nm.reputation_score <= FP

\* C5 witness: successes and failures were both applied and the score has
\* left 1.0.
C5_Witness ==
    /\ nm_updates = MaxUpdates
    /\ nm.packets_routed >= 1
    /\ nm.delivery_failures >= 1
    /\ nm.reputation_score < FP

scores_distinct ==
    \A a, b \in DOMAIN validators :
        a # b => score_of(validators[a]) # score_of(validators[b])

\* C6: on a non-empty registry whose products stake x reputation_score are
\* pairwise distinct, select_leader returns the validator with the largest
\* product.
C6_LeaderIsArgmax ==
    (/\ consensus_ret.op = "select_leader"
     /\ DOMAIN validators # {}
     /\ scores_distinct)
    => \E id \in DOMAIN validators :
        /\ consensus_ret.value = Some(id)
        /\ \A other \in DOMAIN validators :
            score_of(validators[other]) <= score_of(validators[id])

counters_count_calls ==
    \A node \in DOMAIN validators :
        /\ validators[node].metrics.delivery_success = metric_calls[node].success
        /\ validators[node].metrics.delivery_failures = metric_calls[node].failure

unregistered_changes_nothing ==
    (/\ consensus_ret'.op = "update_metrics"
     /\ consensus_ret'.node \notin DOMAIN validators)
    => validators' = validators

\* C7: a registered validator's delivery_success is the number of
\* update_metrics calls made for it with success = true and its
\* delivery_failures the number made with success = false, whatever the latency
\* argument; a call naming an unregistered node changes nothing.
C7_CountersCountCalls ==
    [](counters_count_calls) /\ [][unregistered_changes_nothing]_vars

\* C8: calculate_rewards returns one entry per registered validator:
\* base_reward x stake x reputation_score, and one and a half times that for
\* the leader of the round.
C8_RoundRewards ==
    consensus_ret.op = "calculate_rewards" =>
        /\ DOMAIN consensus_ret.value = DOMAIN validators
        /\ \A id \in DOMAIN validators :
            LET reward == Mul(Mul(consensus_base_reward, validators[id].stake),
                              validators[id].metrics.reputation_score)
            IN  IF id = consensus_ret.round.leader
                THEN 2 * consensus_ret.value[id] = 3 * reward
                ELSE consensus_ret.value[id] = reward

\* C8 witness: rewards were computed for a round led by a registered
\* validator, among validators of different stakes and reputations.
C8_Witness ==
    /\ consensus_ret.op = "calculate_rewards"
    /\ consensus_ret.round.leader \in DOMAIN validators
    /\ consensus_ret.value[consensus_ret.round.leader] > 0
    /\ \E id \in DOMAIN validators :
        /\ id # consensus_ret.round.leader
        /\ validators[id].metrics.reputation_score < FP
        /\ consensus_ret.value[id] > 0

-----------------------------------------------------------------------------
(* Block reward claim *)

\* The delivery success ratio of a is at least that of b (no delivery at all
\* counts as ratio 1).
ratio_at_least(a, b) ==
    LET sa == a.delivery_success
        ta == a.delivery_success + a.delivery_failures
        sb == b.delivery_success
        tb == b.delivery_success + b.delivery_failures
    IN  IF ta = 0 THEN TRUE
        ELSE IF tb = 0 THEN sa = ta
        ELSE sa * tb >= sb * ta

same_deliveries(a, b) ==
    /\ a.delivery_success = b.delivery_success
    /\ a.delivery_failures = b.delivery_failures

both_rewarded == Len(chain) = 3

\* The reward is non-increasing in the latency and non-decreasing in the
\* routed packets and in the delivery success ratio.
reward_monotone ==
    (/\ reward_in.good.average_latency <= reward_in.poor.average_latency
     /\ reward_in.good.packets_routed >= reward_in.poor.packets_routed
     /\ ratio_at_least(reward_in.good, reward_in.poor))
    => get_balance("good_node") >= get_balance("poor_node")

\* With a non-negative latency the reward is at most 1.2 x base x score.
reward_capped ==
    LET cap == Mul(Mul(base_reward, reward_in.score), 6 * (FP \div 5))
    IN  /\ reward_in.good.average_latency >= 0
            => get_balance("good_node") <= cap
        /\ reward_in.poor.average_latency >= 0
            => get_balance("poor_node") <= cap

\* C9 as stated: monotone, capped, and the validator with the lower latency
\* and more routed packets (all else equal) ends with a strictly larger
\* balance.
C9_RewardFavoursBetterMetrics ==
    both_rewarded =>
        /\ reward_monotone
        /\ reward_capped
        /\ (/\ reward_in.good.average_latency < reward_in.poor.average_latency
            /\ reward_in.good.packets_routed > reward_in.poor.packets_routed
            /\ same_deliveries(reward_in.good, reward_in.poor))
           => get_balance("good_node") > get_balance("poor_node")

\* C9 amended: the reward is monotone and capped; the validator with the
\* lower latency and more routed packets never ends with the smaller balance,
\* and good_node ends with a strictly larger balance than poor_node for the
\* metrics of test_dynamic_rewards.
C9_RewardMonotoneAndCapped ==
    both_rewarded =>
        /\ reward_monotone
        /\ reward_capped
        /\ (reward_in.good = good_metrics /\ reward_in.poor = poor_metrics)
           => get_balance("good_node") > get_balance("poor_node")

\* C9 witness: both validators were rewarded, the one with the lower latency
\* and more routed packets more than the other.
C9_Witness ==
    /\ both_rewarded
    /\ reward_in.good.average_latency < reward_in.poor.average_latency
    /\ reward_in.good.packets_routed > reward_in.poor.packets_routed
    /\ same_deliveries(reward_in.good, reward_in.poor)
    /\ get_balance("poor_node") > 0
    /\ get_balance("good_node") > get_balance("poor_node")

-----------------------------------------------------------------------------
(* Content registry claims *)

\* C10: find_content of an id returns, for every (bytes, node) registered
\* under that id so far, metadata with that id, the size len(bytes) and node
\* among the locations; for an id never registered it returns nothing.
C10_RegisterFindRoundTrip ==
    content_ret.op = "find_content" =>
        LET id == content_ret.id
            regs == {r \in registered : ContentId_new(r[1]) = id}
        IN  IF regs = {} THEN content_ret.value = None
            ELSE /\ content_ret.value # None
                 /\ content_ret.value[1].id = id
                 /\ \A r \in regs :
                     /\ content_ret.value[1].size = data_len(r[1])
                     /\ contains(content_ret.value[1].locations, r[2])

\* C10 witness: a content registered by two nodes, and verified since, was
\* found.
C10_Witness ==
    /\ content_ret.op = "find_content"
    /\ content_ret.value # None
    /\ Len(content_ret.value[1].locations) = 2
    /\ content_ret.value[1].last_verified > 0
    /\ Cardinality(DOMAIN content_map) = 2

\* The node ids registered for the bytes of an id.
registered_nodes(id) == {r[2] : r \in {x \in registered : ContentId_new(x[1]) = id}}

locations_complete ==
    \A id \in DOMAIN content_map :
        LET locations == content_map[id].locations
        IN  /\ \A node \in registered_nodes(id) : contains(locations, node)
            /\ \A i, j \in 1..Len(locations) :
                    locations[i] = locations[j] => i = j

locations_kept ==
    \A id \in DOMAIN content_map :
        /\ id \in DOMAIN content_map'
        /\ Len(content_map'[id].locations) >= Len(content_map[id].locations)
        /\ SubSeq(content_map'[id].locations, 1, Len(content_map[id].locations))
                = content_map[id].locations

\* C11: the locations of each content hold every node id that registered
\* its bytes, hold no node id twice, and never lose an entry.
C11_LocationsAccrete == [](locations_complete) /\ [][locations_kept]_vars

\* C11 witness: the same bytes were registered by two nodes, and the
\* content returned by the last register_content has the two locations.
C11_Witness ==
    /\ content_ret.op = "register_content"
    /\ content_ret.value \in DOMAIN content_map
    /\ Cardinality(registered_nodes(content_ret.value)) = 2
    /\ Len(content_map[content_ret.value].locations) = 2

count_starts_at_zero ==
    \A id \in DOMAIN content_map' :
        id \notin DOMAIN content_map =>
            id \in DOMAIN access_counts' /\ access_counts'[id] = 0

count_steps_by_one ==
    \A id \in DOMAIN access_counts :
        /\ id \in DOMAIN access_counts'
        /\ access_counts'[id] >= access_counts[id]
        /\ access_counts'[id] <= access_counts[id] + 1
        /\ access_counts'[id] = access_counts[id] + 1 => find_pc' = Some(id)

every_returned_find_counted ==
    (find_pc # None /\ find_pc' = None /\ content_ret'.value # None)
        => find_counted

\* C12: the access count of a content is 0 after registration, never
\* decreases, and advances by exactly one for each find_content call that
\* returns the content, also when a register_content call runs between the
\* two steps of a find_content call.
C12_AccessCounting ==
    [][count_starts_at_zero /\ count_steps_by_one
       /\ every_returned_find_counted]_vars

\* C13: search_content_by_size(min_kb, max_kb) returns exactly the
\* registered contents whose bucket size / 1024 lies in [min_kb, max_kb],
\* the ids ContentIndex.search_by_size returns for the same contents.
C13_SizeSearchInKilobytes ==
    content_ret.op = "search_content_by_size" =>
        /\ content_ret.value =
            {id \in DOMAIN content_map :
                /\ content_map[id].size \div KB >= content_ret.min_kb
                /\ content_map[id].size \div KB <= content_ret.max_kb}
        /\ content_ret.value =
            ContentIndex_search_by_size(ContentIndex_index_sizes(content_map),
                content_ret.min_kb, content_ret.max_kb)

-----------------------------------------------------------------------------
(* Keypair claims *)

KeyUses == {"sign", "encapsulate_key", "decapsulate_key"}

key_use_blocked ==
    (key_ret.op \in KeyUses /\ key_ret.now > key_ret.keypair.rotation_due)
        => ~key_ret.result.ok

\* verify answers from the public key, the message and the signature alone.
verify_ignores_rotation ==
    key_ret.op = "verify" =>
        \A due \in {0, key_ret.now, key_ret.now + 1} :
            key_ret.result =
                Keypair_verify([key_ret.keypair EXCEPT !.rotation_due = due],
                               key_ret.args[1], key_ret.args[2])

stays_blocked ==
    (key_now > keypair.rotation_due /\ keypair'.public = keypair.public)
        => key_now' > keypair'.rotation_due

\* C20: whenever now > rotation_due, sign, encapsulate_key and
\* decapsulate_key return an error, and an expired keypair stays expired
\* until it is replaced; verify gives the same answer whatever the rotation
\* state.
C20_ExpiryBlocksKeyUse ==
    [](key_use_blocked /\ verify_ignores_rotation) /\ [][stays_blocked]_vars

\* C20 witness: a day and a second after its generation a keypair refuses
\* to sign.
C20_Witness ==
    /\ key_ret.op = "sign"
    /\ key_ret.keypair.rotation_due > 0
    /\ key_ret.now > key_ret.keypair.rotation_due
    /\ ~key_ret.result.ok

-----------------------------------------------------------------------------
(* Overlay network claims *)

queued_numbers ==
    {network.message_queue[i].tracking_no : i \in 1..Len(network.message_queue)}

\* C14: the payload of each packet is appended to the received messages of
\* its destination at most once, a delivered packet is not left in the
\* queue, and no packet is in the queue in more than one copy.
C14_AtMostOnceDelivery ==
    /\ \A i \in 1..Len(network.sent_log) :
        /\ network.sent_log[i].delivered <= 1
        /\ network.sent_log[i].delivered = 1 => i \notin queued_numbers
    /\ \A i, j \in 1..Len(network.message_queue) :
        network.message_queue[i].tracking_no = network.message_queue[j].tracking_no
            => i = j

\* C14 witness: a packet was delivered to node4 on its second processing.
C14_Witness ==
    /\ Len(network.sent_log) >= 1
    /\ network.sent_log[1].delivered = 1
    /\ network.sent_log[1].processed = 2
    /\ "node4" \in DOMAIN network.nodes
    /\ network.nodes["node4"].received_messages = <<"Message 0">>

\* The tracking keys of the packets that were delivered.
delivered_keys ==
    {network.sent_log[i].tracking_id :
        i \in {j \in 1..Len(network.sent_log) : network.sent_log[j].delivered >= 1}}

\* C15: a delivery_tracking entry is true only if a packet of that key was
\* delivered (so the entry of a packet that was dropped or exceeded the hop
\* limit is false), and get_delivery_success_rate is the fraction of tracked
\* keys that were delivered.
C15_TrackingRecordsOutcome ==
    /\ \A id \in DOMAIN network.delivery_tracking :
        network.delivery_tracking[id] => id \in delivered_keys
    /\ Network_get_delivery_success_rate(network) =
        IF DOMAIN network.delivery_tracking = {} THEN FP
        ELSE RoundDiv(Cardinality(delivered_keys) * FP,
                      Cardinality(DOMAIN network.delivery_tracking))

\* C16: the visited nodes of a queued packet are its source followed by one
\* new node for each hop it made: no node is recorded twice.
C16_LoopFreeForwarding ==
    \A i \in 1..Len(network.message_queue) :
        LET packet == network.message_queue[i]
        IN  /\ packet.path[1] = packet.source
            /\ \A j, k \in 1..Len(packet.path) :
                    packet.path[j] = packet.path[k] => j = k
            /\ {packet.path[j] : j \in 1..Len(packet.path)} = packet.visited_nodes
            /\ Len(packet.path) = packet.hop_count + 1

\* C16 witness: a queued packet made two hops.
C16_Witness ==
    \E i \in 1..Len(network.message_queue) :
        /\ network.message_queue[i].hop_count = 2
        /\ Cardinality(network.message_queue[i].visited_nodes) = 3

\* C17: a packet is processed at most max_hops + 1 times and makes at most
\* max_hops hops; after max_hops + 1 calls of process_messages since the
\* last send_packet the queue is empty, and when the queue is empty every
\* packet was delivered or recorded as failed.
C17_HopLimitAndTermination ==
    /\ \A i \in 1..Len(network.sent_log) :
        network.sent_log[i].processed <= max_hops + 1
    /\ \A i \in 1..Len(network.message_queue) :
        /\ network.message_queue[i].hop_count <= max_hops
        /\ Len(network.message_queue[i].path) - 1 <= max_hops
    /\ net_calls <= max_hops + 1
    /\ net_calls = max_hops + 1 => network.message_queue = <<>>
    /\ network.message_queue = <<>> =>
        \A i \in 1..Len(network.sent_log) :
            network.sent_log[i].delivered + network.sent_log[i].failed >= 1

\* C17 witness: a packet made max_hops hops and was failed by the call that
\* took it from the queue for the (max_hops + 1)-th time.
C17_Witness ==
    /\ net_calls = max_hops + 1
    /\ network.message_queue = <<>>
    /\ network.sent_log[1].processed = max_hops + 1
    /\ network.sent_log[1].failed = 1

\* C18: in every state, for every packet of the queue and every next hop it
\* may be tried through, a failed attempt (lines 249-271 and 426-445) adds
\* one to the delivery_failures of that node and leaves its packets_routed,
\* delivery_success and average_latency as they were.
C18_FailureUpdatesOnlyFailures ==
    \A i \in 1..Len(network.message_queue) :
        LET hop == increment_hop(network.message_queue[i])
        IN  hop.ok =>
            \A current_id \in hop.packet.visited_nodes :
                LET cands == candidates(network, hop.packet, current_id)
                IN  \A c \in 1..Len(cands) :
                    \A r \in try_forward_packet(network, <<>>, hop.packet,
                                                cands[c].id) :
                        (~r.ok /\ cands[c].id \in DOMAIN network.nodes) =>
                            LET before == network.nodes[cands[c].id].metrics
                                after == penalize_attempt(r.net, cands[c].id)
                                            .nodes[cands[c].id].metrics
                            IN  /\ after.delivery_failures =
                                        before.delivery_failures + 1
                                /\ after.packets_routed = before.packets_routed
                                /\ after.delivery_success = before.delivery_success
                                /\ after.average_latency = before.average_latency

routed_never_decreases ==
    /\ \A id \in DOMAIN validators \cap DOMAIN validators' :
        validators'[id].metrics.packets_routed
            >= validators[id].metrics.packets_routed
    /\ \A id \in DOMAIN network.nodes \cap DOMAIN network'.nodes :
        network'.nodes[id].metrics.packets_routed
            >= network.nodes[id].metrics.packets_routed

\* C19: no operation decreases the packets_routed of a validator of the
\* ConsensusManager or of a node of the Network.
C19_RoutedMonotone == [][routed_never_decreases]_vars

-----------------------------------------------------------------------------
(* ZHTP node claims *)

\* the last call was process_packet and found the packet's commitment to be
\* the node's own
treated_as_own ==
    /\ znode_ret.op = "process_packet"
    /\ ~(znode_ret.result.ok /\ znode_ret.result.value = <<>>)

\* C21: commit_destination gives distinct values to distinct addresses, so
\* the packets a node treats as addressed to itself were committed to its
\* own address.
C21_CommitmentInjective ==
    /\ \A a, b \in NodeAddresses :
          a # b => commit_destination(a) # commit_destination(b)
    /\ treated_as_own => znode_ret.arg.destination = znode_ret.before.addr

\* the packet's signature verifies over its header against the key of the
\* peer, the sender of every packet here
signature_verifies(packet) ==
    LET v == Keypair_verify(Peer.keypair, serialize_header(packet.header),
                            packet.signature)
    IN  v.ok /\ v.value

\* C22: a packet that was accepted for local delivery, changed the routing
\* table or was replied to carries a signature that verifies over its
\* header against the sender's key.
C22_OnlySignedPacketsAccepted ==
    (/\ znode_ret.op = "process_packet"
     /\ \/ treated_as_own
        \/ znode.routing_table # znode_ret.before.routing_table
        \/ znode_ret.sent # {})
    => signature_verifies(znode_ret.arg)

\* C23: after a connect that failed the routing table is the one before the
\* call.
C23_FailedConnectLeavesTable ==
    (znode_ret.op = "connect" /\ ~znode_ret.result.ok)
    => znode.routing_table = znode_ret.before.routing_table

\* C24: after process_packet of a packet committed to the node's address
\* with a payload other than the two handshake literals, on a node with a
\* message handler, the payload is the last one sent on the channel.
C24_LocalDeliveryReachesChannel ==
    (/\ znode_ret.op = "process_packet"
     /\ znode_ret.before.message_handler # None
     /\ znode_ret.arg.header.destination_commitment
            = commit_destination(znode_ret.before.addr)
     /\ znode_ret.arg.payload \notin {ZHTP_HANDSHAKE, ZHTP_ACK})
    => /\ znode_inbox # <<>>
       /\ znode_inbox[Len(znode_inbox)] = znode_ret.arg.payload

-----------------------------------------------------------------------------
(* Unified proof claims *)

\* the last call verified the proof with the circuit's own source,
\* destination and data root
verified_with_own_values ==
    /\ zk_ret.op = "verify_unified_proof"
    /\ zk_ret.arg.source = zk_circuit.source_node
    /\ zk_ret.arg.destination = zk_circuit.destination_node
    /\ zk_ret.arg.stored_data_root = zk_circuit.stored_data_root

\* C25: a generated proof with the wire value at one position replaced by a
\* different value is rejected for the original source, destination and
\* data root.
C25_TamperedProofRejected ==
    (verified_with_own_values /\ zk_ret.arg.tampered # 0)
    => ~zk_ret.result

\* some consecutive pair of the path is not a hop of the routing table
has_absent_hop(c) ==
    \E i \in 1..(Len(c.route_path) - 1) :
        \/ c.route_path[i] \notin DOMAIN c.routing_table
        \/ \A k \in DOMAIN c.routing_table[c.route_path[i]] :
              c.routing_table[c.route_path[i]][k] # c.route_path[i + 1]

\* C26: generate_proof returns no proof exactly for the circuits whose path
\* has a hop that is absent from the routing table.
C26_NoProofForInvalidPath ==
    zk_ret.op = "generate_proof"
    => (zk_ret.result = None <=> has_absent_hop(zk_circuit))

C26_Witness ==
    /\ zk_ret.op = "generate_proof"
    /\ zk_ret.result = None
    /\ zk_circuit.route_path = <<source_id, unknown_hop, destination_id>>
    /\ zk_circuit.routing_table = test_routing_table

\* 5 + routing + storage + metrics values
proof_length(c) ==
    5 + (IF c.route_path = <<>> THEN 0 ELSE 2 * Len(c.route_path) - 1)
      + (2 * Len(c.storage_merkle_proof) + 1)
      + (2 * Len(c.uptime_records) + 2 * Len(c.latency_measurements))

\* the circuit of scenario S5 (test_proof_performance, test_unified_proof)
scenario_S5 ==
    /\ zk_circuit.route_path = <<source_id, mid_hop, destination_id>>
    /\ zk_circuit.routing_table = test_routing_table
    /\ zk_circuit.storage_merkle_proof = test_merkle_proof
    /\ zk_circuit.uptime_records = test_uptime
    /\ zk_circuit.latency_measurements = test_latency

\* the three lists of a generated proof have the length 5 + routing +
\* storage + metrics, and the proof verifies with the circuit's values
proof_complete ==
    /\ zk_proof # None =>
         /\ Len(zk_proof[1].path_commitments) = proof_length(zk_circuit)
         /\ Len(zk_proof[1].proof_elements) = proof_length(zk_circuit)
         /\ Len(zk_proof[1].public_inputs) = proof_length(zk_circuit)
    /\ (verified_with_own_values /\ zk_ret.arg.tampered = 0) => zk_ret.result

\* C27 as stated: a generated proof is complete, and the proof of scenario
\* S5 has 25 commitments.
C27_CompleteWith25InS5 ==
    /\ proof_complete
    /\ (zk_proof # None /\ scenario_S5) =>
          Len(zk_proof[1].path_commitments) = 25

\* C27, amended: a generated proof is complete, and the proof of scenario
\* S5 has 5 + 5 + 7 + 12 = 29 commitments.
C27_CompleteWith29InS5 ==
    /\ proof_complete
    /\ (zk_proof # None /\ scenario_S5) =>
          Len(zk_proof[1].path_commitments) = 29

C27_Witness ==
    /\ scenario_S5
    /\ verified_with_own_values /\ zk_ret.arg.tampered = 0
    /\ zk_ret.result
    /\ Len(zk_ret.arg.proof.public_inputs) = 29

\* C28: a generated proof is rejected when the source, the destination or
\* a data root that is not all-zero differs from the circuit's, and the
\* all-zero data root is accepted in place of the circuit's root.
C28_BaseValueBinding ==
    (zk_ret.op = "verify_unified_proof" /\ zk_ret.arg.tampered = 0)
    => /\ (\/ zk_ret.arg.source # zk_circuit.source_node
           \/ zk_ret.arg.destination # zk_circuit.destination_node
           \/ /\ zk_ret.arg.stored_data_root # zeros(32)
              /\ zk_ret.arg.stored_data_root # zk_circuit.stored_data_root)
          => ~zk_ret.result
       /\ (/\ zk_ret.arg.source = zk_circuit.source_node
           /\ zk_ret.arg.destination = zk_circuit.destination_node
           /\ zk_ret.arg.stored_data_root = zeros(32))
          => zk_ret.result

\* test_invalid_storage_proof: the proof of a circuit with a root other than
\* zero, verified with a wrong root
C28_Witness ==
    /\ zk_ret.op = "verify_unified_proof" /\ zk_ret.arg.tampered = 0
    /\ zk_circuit.stored_data_root = test_data_root
    /\ zk_ret.arg.source = zk_circuit.source_node
    /\ zk_ret.arg.destination = zk_circuit.destination_node
    /\ zk_ret.arg.stored_data_root = wrong_root
    /\ ~zk_ret.result

-----------------------------------------------------------------------------
(* Content registry lock claims *)

\* C29: a task that awaits a lock of the registry holds at most one other
\* lock of the registry.
C29_OneLockAcrossAwait ==
    \A t \in Tasks : awaits_lock(t) => Cardinality(held_by(t)) <= 1

-----------------------------------------------------------------------------
(* Bridge claims *)

\* C30: the messages process_messages returns, whose payloads it gave to the
\* runtime, come from a chain with a verified state equal to the state hash
\* of the message.
C30_VerifiedSourceState ==
    bridge_ret.op = "process_messages"
    => \A k \in DOMAIN bridge_ret.processed :
          LET message == bridge_ret.processed[k]
          IN  /\ message.source_chain \in DOMAIN bridge.verifier.verified_states
              /\ bridge.verifier.verified_states[message.source_chain]
                    = message.state_hash

-----------------------------------------------------------------------------
(* Ledger claims on the contents of blocks *)

\* What create_block leaves behind: one more block, holding the reward
\* transaction and then the pool in its order, and an empty pool.
block_seals_pool ==
    LET block == chain'[Len(chain')]
    IN  /\ Len(chain') = Len(chain) + 1
        /\ SubSeq(chain', 1, Len(chain)) = chain
        /\ block.transactions # <<>>
        /\ Head(block.transactions).from = "network"
        /\ Head(block.transactions).to = ledger_ret'.validator
        /\ Head(block.transactions).to = block.validator
        /\ Tail(block.transactions) = pending_transactions
        /\ pending_transactions' = <<>>

\* The accepted transactions, sealed or pending, grow by the transaction
\* add_transaction accepted and by nothing else.
accepted_kept ==
    IF ledger_ret'.op = "add_transaction" /\ ledger_ret'.value
    THEN accepted_transactions' = Append(accepted_transactions, ledger_ret'.tx)
    ELSE accepted_transactions' = accepted_transactions

\* C31: each create_block call appends exactly one block whose transactions
\* are the reward transaction from "network" to the validator followed by the
\* pending pool in acceptance order, and empties the pool; every accepted
\* transaction stays in the ledger exactly once, in one block or in the pool.
C31_BlockContents ==
    /\ [][ledger_ret'.op = "create_block" => block_seals_pool]_vars
    /\ [][accepted_kept]_vars

\* C31 witness: a block sealed two pending transactions behind its reward
\* transaction.
C31_Witness ==
    /\ ledger_ret.op = "create_block"
    /\ Len(chain[Len(chain)].transactions) = 3
    /\ chain[Len(chain)].transactions[2].from = "network"
    /\ chain[Len(chain)].transactions[3].from = "a"
    /\ pending_transactions = <<>>

-----------------------------------------------------------------------------
(* Content registry claims on registered content *)

\* The step is a register_content call for bytes whose id is in the map.
reregistration(r) ==
    /\ ContentId_new(r[1]) \in DOMAIN content_map
    /\ register_content(r[1], r[2], r[3], r[4])

\* What such a call may change: the locations and last_verified of the one
\* content.
reregistration_frame(id) ==
    /\ DOMAIN content_map' = DOMAIN content_map
    /\ \A other \in DOMAIN content_map \ {id} :
          content_map'[other] = content_map[other]
    /\ content_map'[id].id = content_map[id].id
    /\ content_map'[id].size = content_map[id].size
    /\ content_map'[id].content_type = content_map[id].content_type
    /\ content_map'[id].tags = content_map[id].tags
    /\ type_index' = type_index
    /\ size_index' = size_index
    /\ tag_index' = tag_index
    /\ access_counts' = access_counts

\* The clock of the model never goes back; last_verified follows it.
last_verified_kept ==
    \A id \in DOMAIN content_map :
        /\ id \in DOMAIN content_map'
        /\ content_map'[id].last_verified >= content_map[id].last_verified

-----------------------------------------------------------------------------
(* Overlay network claims on the current node of a packet *)

\* The node a queued packet was most recently forwarded to: the last node
\* record_visit added, the source before the first hop.
latest_node(packet) == packet.path[Len(packet.path)]

connected_to(net, node_id, other) ==
    /\ node_id \in DOMAIN net.nodes
    /\ contains(net.nodes[node_id].connections, other)

\* A process_messages step that forwarded the packet forwarded it to a
\* neighbour of its latest node.
forwarded_from_latest ==
    \A i \in DOMAIN network.message_queue, j \in DOMAIN network'.message_queue :
        LET packet == network.message_queue[i]
            forwarded == network'.message_queue[j]
        IN  (/\ forwarded.tracking_no = packet.tracking_no
             /\ Len(forwarded.path) = Len(packet.path) + 1)
            => connected_to(network, latest_node(packet), latest_node(forwarded))

\* A process_messages step that delivered the packet found the destination
\* among the connections of its latest node.
delivered_from_latest ==
    \A i \in DOMAIN network.message_queue :
        LET packet == network.message_queue[i]
            k == packet.tracking_no
        IN  network'.sent_log[k].delivered > network.sent_log[k].delivered
            => connected_to(network, latest_node(packet), packet.destination)

\* C33: the node whose connections decide direct delivery and whose
\* unvisited neighbours are the forwarding candidates is the node the packet
\* was most recently forwarded to (the source before the first hop), never
\* an earlier node of its path.
C33_CurrentNodeIsLatest ==
    [][forwarded_from_latest /\ delivered_from_latest]_vars

-----------------------------------------------------------------------------
(* Claims on the tasks of a listening node *)

\* C34: a connect call made while the listen tasks run, whose peer answered
\* its ZHTP_HANDSHAKE with a ZHTP_ACK before the 5 s passed, returns
\* success, whichever of the listen task and the connect call receives from
\* the socket first.
C34_HandshakeCompletes ==
    (task_ret.op = "connect" /\ task_ret.answered) => task_ret.result.ok

node1_keypair == task_nodes[node1_addr].keypair

\* What one tick of the rotation task does to the keypair of node1.
rotation_effect ==
    LET after == task_nodes'[node1_addr]
    IN  IF needs_rotation(node1_keypair, task_now)
        THEN /\ after.keypair.public # node1_keypair.public
             /\ after.keypair.secret # node1_keypair.secret
             /\ ~get_status(after.keypair, task_now').needs_rotation
             /\ after.keypair.created_at = task_now
             /\ after.keypair.rotation_due = task_now + 86400
             /\ ZhtpNode_create_packet(after, node2_addr, <<"hello">>, 0,
                                       task_now').ok
        ELSE after.keypair = node1_keypair

\* C35: a keypair that needs rotation is replaced at a later tick of the
\* rotation task; after the replacement needs_rotation is false,
\* rotation_due is the replacement time plus 86400 s and create_packet
\* succeeds; a tick on a keypair that does not need rotation leaves it
\* unchanged.
C35_ExpiredKeysRotated ==
    /\ [][RotationTick => rotation_effect]_vars
    /\ needs_rotation(node1_keypair, task_now)
          ~> ~needs_rotation(node1_keypair, task_now)

\* C35 witness: the tick replaced a keypair whose 24 hours had passed, and
\* the node can create packets again.
C35_Witness ==
    /\ task_ret.op = "rotate_keys"
    /\ task_ret.before.keypair.rotation_due = KEY_ROTATION_INTERVAL
    /\ needs_rotation(task_ret.before.keypair, task_ret.now)
    /\ node1_keypair.public # task_ret.before.keypair.public
    /\ node1_keypair.rotation_due = task_now + KEY_ROTATION_INTERVAL
    /\ ZhtpNode_create_packet(task_nodes[node1_addr], node2_addr, <<"hello">>,
                              0, task_now).ok

-----------------------------------------------------------------------------
(* Ledger claims on balances and signatures *)

\* C36: after any sequence of add_transaction and create_block calls with
\* validator scores that are not negative, no address has a balance below
\* zero.
C36_NoOverspending ==
    \A a \in LedgerAddresses : get_balance(a) >= 0

\* C37: every transaction add_transaction accepted, pending or sealed behind
\* the reward transaction of a block, carries a signature that
\* verify_signature accepts for its sender.
C37_OnlySignedTransactions ==
    \A i \in 1..Len(accepted_transactions) :
        verify_signature(accepted_transactions[i], accepted_transactions[i].from)

-----------------------------------------------------------------------------
(* Content registry claims on deadlock and on the indices *)

\* Task t awaits a lock that task u holds in a mode that keeps t out.
waits_for(t, u) ==
    /\ awaits_lock(t)
    /\ LET s == next_step(reg_tasks[t])
       IN  \/ reg_locks[s.lock].writer = Some(u)
           \/ s.mode = "write" /\ u \in reg_locks[s.lock].readers

\* C38: no two concurrent calls of the registry's operations each wait for
\* a lock the other holds, so that every call can go on to return.
C38_NoRegistryDeadlock ==
    \A t, u \in Tasks : t # u => ~(waits_for(t, u) /\ waits_for(u, t))

-----------------------------------------------------------------------------
(* Overlay network claims on delivery tracking *)

\* C39: delivery_tracking holds one entry for each packet sent, also when
\* packets with the same source and destination are sent within a second,
\* so that no packet's outcome is written over another's.
C39_OneEntryPerPacket ==
    /\ Cardinality(DOMAIN network.delivery_tracking) = Len(network.sent_log)
    /\ \A i, j \in 1..Len(network.sent_log) :
          i # j => network.sent_log[i].tracking_id # network.sent_log[j].tracking_id

\* The ids an index holds, and how often an id or a tag occurs in a list.
index_ids(idx) ==
    UNION {{idx[k][i] : i \in 1..Len(idx[k])} : k \in DOMAIN idx}
occurrences(seq, x) == Cardinality({i \in 1..Len(seq) : seq[i] = x})

\* The id is listed once under key and under no other key of the index.
once_under(idx, key, id) ==
    \A k \in DOMAIN idx : occurrences(idx[k], id) = IF k = key THEN 1 ELSE 0

\* Type index, size index and access counts agree with the content map.
indices_agree ==
    /\ index_ids(type_index) = DOMAIN content_map
    /\ index_ids(size_index) = DOMAIN content_map
    /\ DOMAIN access_counts = DOMAIN content_map
    /\ \A id \in DOMAIN content_map :
          /\ content_map[id].content_type \in DOMAIN type_index
          /\ once_under(type_index, content_map[id].content_type, id)
          /\ content_map[id].size \in DOMAIN size_index
          /\ once_under(size_index, content_map[id].size, id)

====
